---- MODULE Spec2Model ----
(***************************************************************************)
(* Cambodia ANPR system: plate text validation and canonicalisation,      *)
(* OCR candidate selection, plate-to-vehicle association and the          *)
(* per-frame tracking loop.                                               *)
(*                                                                         *)
(* A text is a sequence of one-character strings.  Python indexes from 0, *)
(* TLA+ sequences from 1: position j of the source is element j + 1 here. *)
(***************************************************************************)
EXTENDS Integers, Sequences, FiniteSets, TLC

VARIABLES
    text, pcText, complies, plate, plate2,          \* plate text functions
    detections, readerRaises, pcOcr, ocrResult,     \* read_license_plate
    license_plate, vehicle_track_ids, pcCar, carResult, \* get_car
    trackers, count, frame_count, assignment,       \* Sort instance
    frame_nmr, ret, tracking_data, track_ids,       \* video loop of main
    issued, retired, update_calls,                  \* history of the tracker
    track_bbs_ids,                                  \* process_video of deploy
    sessions,                                       \* Sort instances of the web app
    environ, Config, pcConfig, configResult,        \* config module
    instance, initialized, app, ref,                \* FirebaseManager
    init_succeeded, fbTick, fbResult,               \* calls made on the manager
    database,                                       \* paths of the Realtime Database holding data
    results, license_plates, ocr_calls,             \* per-frame records of main
    gradio_vehicle_results,                         \* detector rows of the frame (web_gradio)
    firebase_manager, detected_data, database_data, \* flagged-vehicle check of cli
    pcFlagged, set_calls

textVars == <<text, pcText, complies, plate, plate2>>
ocrVars == <<detections, readerRaises, pcOcr, ocrResult>>
carVars == <<license_plate, vehicle_track_ids, pcCar, carResult>>
sortVars == <<trackers, count, frame_count, assignment>>
loopVars == <<frame_nmr, ret, tracking_data, track_ids>>
histVars == <<issued, retired, update_calls>>
appVars == <<track_bbs_ids, sessions>>
trackVars == <<sortVars, loopVars, histVars, appVars>>
configVars == <<environ, Config, pcConfig, configResult>>
fbVars ==
    <<instance, initialized, app, ref, init_succeeded, fbTick, fbResult, database>>
recVars == <<results, license_plates, ocr_calls>>
gradioVars == <<gradio_vehicle_results>>
flagVars == <<firebase_manager, detected_data, database_data, pcFlagged, set_calls>>
svcButConfig == <<fbVars, recVars, gradioVars, flagVars>>
svcButFirebase == <<configVars, recVars, gradioVars, flagVars>>
svcVars == <<configVars, fbVars, recVars, gradioVars, flagVars>>
vars == <<textVars, ocrVars, carVars, trackVars, svcVars>>

\* ------------------------------------------------------------------------
\* Bounds of the explored inputs
\* ------------------------------------------------------------------------
MaxLen == 7
MaxCands == 2
MaxTracks == 2
MaxFrameNmr == 6
MaxDets == 2
MaxSessions == 2
MaxFrameIdx == 2

\* ------------------------------------------------------------------------
\* src/util.py: character tables
\* ------------------------------------------------------------------------
ascii_uppercase ==
    {"A", "B", "C", "D", "E", "F", "G", "H", "I", "J", "K", "L", "M",
     "N", "O", "P", "Q", "R", "S", "T", "U", "V", "W", "X", "Y", "Z"}

digits == {"0", "1", "2", "3", "4", "5", "6", "7", "8", "9"}

DICT_CHAR_TO_INT ==
    ("O" :> "0") @@ ("I" :> "1") @@ ("J" :> "3") @@
    ("A" :> "4") @@ ("G" :> "6") @@ ("S" :> "5")

DICT_INT_TO_CHAR ==
    ("0" :> "O") @@ ("1" :> "I") @@ ("3" :> "J") @@
    ("4" :> "A") @@ ("6" :> "G") @@ ("5" :> "S")

PlateLen == 7

\* Positions (1-based) that must hold a letter, resp. a digit.
LetterPos == {1, 2, 5, 6, 7}
DigitPos == {3, 4}

\* ------------------------------------------------------------------------
\* src/util.py: license_complies_format
\* ------------------------------------------------------------------------
\* Bug variants of license_complies_format: the length test relaxed to "at
\* least 7", and the look-alike alternatives forgotten.
license_complies_format_no_length(t) ==
    /\ Len(t) >= PlateLen
    /\ (t[1] \in ascii_uppercase \/ t[1] \in DOMAIN DICT_INT_TO_CHAR)
    /\ (t[2] \in ascii_uppercase \/ t[2] \in DOMAIN DICT_INT_TO_CHAR)
    /\ (t[3] \in digits \/ t[3] \in DOMAIN DICT_CHAR_TO_INT)
    /\ (t[4] \in digits \/ t[4] \in DOMAIN DICT_CHAR_TO_INT)
    /\ (t[5] \in ascii_uppercase \/ t[5] \in DOMAIN DICT_INT_TO_CHAR)
    /\ (t[6] \in ascii_uppercase \/ t[6] \in DOMAIN DICT_INT_TO_CHAR)
    /\ (t[7] \in ascii_uppercase \/ t[7] \in DOMAIN DICT_INT_TO_CHAR)

license_complies_format_strict(t) ==
    /\ Len(t) = PlateLen
    /\ \A j \in LetterPos : t[j] \in ascii_uppercase
    /\ \A j \in DigitPos : t[j] \in digits

license_complies_format(t) ==
    IF Len(t) # PlateLen
    THEN FALSE
    ELSE /\ (t[1] \in ascii_uppercase \/ t[1] \in DOMAIN DICT_INT_TO_CHAR)
         /\ (t[2] \in ascii_uppercase \/ t[2] \in DOMAIN DICT_INT_TO_CHAR)
         /\ (t[3] \in digits \/ t[3] \in DOMAIN DICT_CHAR_TO_INT)
         /\ (t[4] \in digits \/ t[4] \in DOMAIN DICT_CHAR_TO_INT)
         /\ (t[5] \in ascii_uppercase \/ t[5] \in DOMAIN DICT_INT_TO_CHAR)
         /\ (t[6] \in ascii_uppercase \/ t[6] \in DOMAIN DICT_INT_TO_CHAR)
         /\ (t[7] \in ascii_uppercase \/ t[7] \in DOMAIN DICT_INT_TO_CHAR)

\* ------------------------------------------------------------------------
\* src/util.py: format_license
\* ------------------------------------------------------------------------
mapping ==
    (1 :> DICT_INT_TO_CHAR) @@ (2 :> DICT_INT_TO_CHAR) @@
    (3 :> DICT_CHAR_TO_INT) @@ (4 :> DICT_CHAR_TO_INT) @@
    (5 :> DICT_INT_TO_CHAR) @@ (6 :> DICT_INT_TO_CHAR) @@
    (7 :> DICT_INT_TO_CHAR)

\* Bug variants of format_license: the two tables swapped, only the letter
\* positions rewritten, and one merged table used at every position.
format_license_swapped(t) ==
    [j \in 1..PlateLen |->
        IF j \in LetterPos
        THEN IF t[j] \in DOMAIN DICT_CHAR_TO_INT THEN DICT_CHAR_TO_INT[t[j]] ELSE t[j]
        ELSE IF t[j] \in DOMAIN DICT_INT_TO_CHAR THEN DICT_INT_TO_CHAR[t[j]] ELSE t[j]]

format_license_letters_only(t) ==
    [j \in 1..PlateLen |->
        IF j \in LetterPos /\ t[j] \in DOMAIN mapping[j]
        THEN mapping[j][t[j]]
        ELSE t[j]]

format_license_merged(t) ==
    [j \in 1..PlateLen |->
        IF t[j] \in DOMAIN DICT_INT_TO_CHAR THEN DICT_INT_TO_CHAR[t[j]]
        ELSE IF t[j] \in DOMAIN DICT_CHAR_TO_INT THEN DICT_CHAR_TO_INT[t[j]]
        ELSE t[j]]

\* for j in range(7): the first seven characters are rewritten, anything
\* beyond them is dropped; a shorter text raises IndexError (see Format).
format_license(t) ==
    [j \in 1..PlateLen |->
        IF t[j] \in DOMAIN mapping[j] THEN mapping[j][t[j]] ELSE t[j]]

\* ------------------------------------------------------------------------
\* Inputs of the plate text functions
\* ------------------------------------------------------------------------
\* One character of each class: plain letter, look-alike letter, look-alike
\* digit, plain digit.
Alphabet == {"B", "O", "0", "2"}

\* Characters tried one position at a time; "-" and "a" are in no class.
CharPool == ascii_uppercase \cup digits \cup {"-", "a", " "}

StringsUpTo(n) == UNION {[1..k -> Alphabet] : k \in 0..n}

Canonical == <<"A", "B", "1", "2", "C", "D", "E">>

SingleSubst ==
    {[Canonical EXCEPT ![j] = c] : j \in 1..PlateLen, c \in CharPool}

\* The strings of src/tests/test_util.py.
TestVectors ==
    { <<"A", "B", "1", "2", "C", "D", "E">>,
      <<"X", "Y", "9", "9", "Z", "Z", "Z">>,
      <<"P", "P", "0", "0", "Q", "Q", "Q">>,
      <<"A", "B", "C", "1", "2", "3">>,
      <<"A", "B", "1", "2", "C", "D", "E", "F">>,
      <<>>,
      <<"A">>,
      <<"1", "2", "3", "4", "5", "6", "7">>,
      <<"A", "B", "C", "D", "E", "F", "G">>,
      <<"1", "2", "A", "B", "3", "4", "5">>,
      <<"A", "B", "C", "D", "1", "2", "3">>,
      <<"A", "B", "0", "O", "C", "D", "E">>,
      <<"0", "B", "1", "2", "C", "D", "E">>,
      <<"0", "B", "I", "I", "3", "D", "E">> }

TextInputs == StringsUpTo(MaxLen) \cup SingleSubst \cup TestVectors

\* ------------------------------------------------------------------------
\* Plate text functions applied to one input
\* ------------------------------------------------------------------------
InitText ==
    /\ text \in TextInputs
    /\ pcText = "input"
    /\ complies = FALSE
    /\ plate = <<>>
    /\ plate2 = <<>>

\* license_complies_format(text)
Validate ==
    /\ pcText = "input"
    /\ complies' = license_complies_format(text)
    /\ pcText' = "validated"
    /\ UNCHANGED <<text, plate, plate2>>
    /\ UNCHANGED <<ocrVars, carVars, trackVars, svcVars>>

\* format_license(text); text[j] raises IndexError on a text shorter than 7
Format ==
    /\ pcText = "validated"
    /\ IF Len(text) < PlateLen
       THEN /\ pcText' = "IndexError"
            /\ UNCHANGED plate
       ELSE /\ plate' = format_license(text)
            /\ pcText' = "formatted"
    /\ UNCHANGED <<text, complies, plate2>>
    /\ UNCHANGED <<ocrVars, carVars, trackVars, svcVars>>

\* format_license(format_license(text))
FormatAgain ==
    /\ pcText = "formatted"
    /\ plate2' = format_license(plate)
    /\ pcText' = "reformatted"
    /\ UNCHANGED <<text, complies, plate>>
    /\ UNCHANGED <<ocrVars, carVars, trackVars, svcVars>>

NextText == Validate \/ Format \/ FormatAgain

\* ------------------------------------------------------------------------
\* src/util.py: read_license_plate
\* ------------------------------------------------------------------------
LowerSeq ==
    <<"a", "b", "c", "d", "e", "f", "g", "h", "i", "j", "k", "l", "m",
      "n", "o", "p", "q", "r", "s", "t", "u", "v", "w", "x", "y", "z">>

UpperSeq ==
    <<"A", "B", "C", "D", "E", "F", "G", "H", "I", "J", "K", "L", "M",
      "N", "O", "P", "Q", "R", "S", "T", "U", "V", "W", "X", "Y", "Z">>

\* str.upper() on one character
UpperChar(c) ==
    IF \E i \in 1..Len(LowerSeq) : LowerSeq[i] = c
    THEN UpperSeq[CHOOSE i \in 1..Len(LowerSeq) : LowerSeq[i] = c]
    ELSE c

IsNotSpace(c) == c # " "

\* text.upper().replace(' ', '')
NormalizeOcr(t) == SelectSeq([i \in 1..Len(t) |-> UpperChar(t[i])], IsNotSpace)

NoneResult == [none |-> TRUE, text |-> <<>>, score |-> 0]

\* Bug variant of the candidate loop: the first candidate's text returned
\* without validation or formatting.
RECURSIVE ScanDetections(_, _)

ScanDetections_unvalidated(dets, i) ==
    IF i > Len(dets)
    THEN NoneResult
    ELSE [none |-> FALSE, text |-> NormalizeOcr(dets[i][2]), score |-> dets[i][3]]

\* for detection in detections: the candidates from index i on
ScanDetections(dets, i) ==
    IF i > Len(dets)
    THEN NoneResult
    ELSE IF license_complies_format(NormalizeOcr(dets[i][2]))
         THEN [none |-> FALSE,
               text |-> format_license(NormalizeOcr(dets[i][2])),
               score |-> dets[i][3]]
         ELSE ScanDetections(dets, i + 1)

\* reader.readtext may raise; the except clause returns (None, None)
read_license_plate(dets, raises) ==
    IF raises THEN NoneResult ELSE ScanDetections(dets, 1)

\* Raw OCR texts: valid after upper/replace, valid through look-alikes, too
\* short, canonical, all digits, all look-alikes, invalid character.
RawTexts ==
    { <<"a", "b", " ", "1", "2", " ", "c", "d", "e">>,
      <<"0", "B", "I", "I", "3", "D", "E">>,
      <<"A", "B", "C", "1", "2", "3">>,
      <<"A", "B", "1", "2", "C", "D", "E">>,
      <<"1", "2", "3", "4", "5", "6", "7">>,
      <<"A", "B", "-", "2", "C", "D", "E">> }

\* OCR confidences in hundredths
Scores == {35, 90}

\* A detection is (bbox, text, score); the bbox is not used by the reader.
Candidates == {<<0, t, s>> : t \in RawTexts, s \in Scores}

DetectionLists == UNION {[1..k -> Candidates] : k \in 0..MaxCands}

InitOcr ==
    /\ detections \in DetectionLists
    /\ readerRaises \in BOOLEAN
    /\ pcOcr = "input"
    /\ ocrResult = NoneResult

ReadLicensePlate ==
    /\ pcOcr = "input"
    /\ ocrResult' = read_license_plate(detections, readerRaises)
    /\ pcOcr' = "done"
    /\ UNCHANGED <<detections, readerRaises>>
    /\ UNCHANGED <<textVars, carVars, trackVars, svcVars>>

NextOcr == ReadLicensePlate

\* ------------------------------------------------------------------------
\* src/util.py: get_car
\* ------------------------------------------------------------------------
NoCar == <<-1, -1, -1, -1, -1>>

\* Bug variant: containment tested with >= and <=.
Contains_non_strict(car, lp) ==
    /\ lp[1] >= car[1]
    /\ lp[2] >= car[2]
    /\ lp[3] <= car[3]
    /\ lp[4] <= car[4]

\* if x1 > xcar1 and y1 > ycar1 and x2 < xcar2 and y2 < ycar2
Contains(car, lp) ==
    /\ lp[1] > car[1]
    /\ lp[2] > car[2]
    /\ lp[3] < car[3]
    /\ lp[4] < car[4]

\* Bug variants of the loop: the last containing track returned instead of
\* the first, and the last track returned when the loop runs out.
RECURSIVE get_car_from(_, _, _)

get_car_from_last(lp, tracks, j) ==
    IF \E k \in 1..Len(tracks) : Contains(tracks[k], lp)
    THEN tracks[CHOOSE k \in 1..Len(tracks) :
                    /\ Contains(tracks[k], lp)
                    /\ \A m \in 1..Len(tracks) : Contains(tracks[m], lp) => m <= k]
    ELSE NoCar

get_car_from_no_sentinel(lp, tracks, j) ==
    IF j > Len(tracks)
    THEN IF Len(tracks) > 0 THEN tracks[Len(tracks)] ELSE NoCar
    ELSE IF Contains(tracks[j], lp)
         THEN tracks[j]
         ELSE get_car_from(lp, tracks, j + 1)

\* for j in range(len(vehicle_track_ids)): the tracks from index j on
get_car_from(lp, tracks, j) ==
    IF j > Len(tracks)
    THEN NoCar
    ELSE IF Contains(tracks[j], lp)
         THEN tracks[j]
         ELSE get_car_from(lp, tracks, j + 1)

get_car(lp, tracks) == get_car_from(lp, tracks, 1)

\* Inputs of get_car.  Around a plate spanning 1..2 a vehicle extent 0..3
\* contains it tightly, 0..4 loosely, 1..3 shares its low edge and 0..2
\* its high edge; the plate spanning 2..3 is contained by 0..4 only.
CarExtents == {<<0, 3>>, <<0, 4>>, <<1, 3>>, <<0, 2>>}
PlateXExtents == {<<1, 2>>, <<2, 3>>}
PlateYExtents == {<<1, 2>>}

CarBoxes == {<<x[1], y[1], x[2], y[2]>> : x \in CarExtents, y \in CarExtents}
PlateDetections ==
    {<<x[1], y[1], x[2], y[2], 95, 0>> : x \in PlateXExtents, y \in PlateYExtents}

Permutations1(n) == {f \in [1..n -> 1..n] : \A a, b \in 1..n : f[a] = f[b] => a = b}

\* Track lists of up to MaxTracks rows (x1, y1, x2, y2, id) with distinct ids
\* in any order.
TrackLists ==
    UNION {{[j \in 1..n |-> <<b[j][1], b[j][2], b[j][3], b[j][4], ids[j]>>] :
                b \in [1..n -> CarBoxes], ids \in Permutations1(n)} :
           n \in 0..MaxTracks}

InitCar ==
    /\ license_plate \in PlateDetections
    /\ vehicle_track_ids \in TrackLists
    /\ pcCar = "input"
    /\ carResult = NoCar

GetCar ==
    /\ pcCar = "input"
    /\ carResult' = get_car(license_plate, vehicle_track_ids)
    /\ pcCar' = "done"
    /\ UNCHANGED <<license_plate, vehicle_track_ids>>
    /\ UNCHANGED <<textVars, ocrVars, trackVars, svcVars>>

NextCar == GetCar

\* ------------------------------------------------------------------------
\* Sort tracker (anpr/tracking/sort.py), modelled from sections 3 and 4 of
\* the specification.  The motion state is kept to the resolution of boxes:
\* a track holds its box estimate and the per-step displacement of the box,
\* prediction moves the box by the displacement, correction puts the box on
\* the observed one and adds the innovation to the displacement.
\* ------------------------------------------------------------------------
max_age == 1
min_hits == 1
\* overlap threshold 0.3 as a fraction
IouThresholdNum == 3
IouThresholdDen == 10

Max2(a, b) == IF a >= b THEN a ELSE b
Min2(a, b) == IF a <= b THEN a ELSE b

Area(b) == (b[3] - b[1]) * (b[4] - b[2])

Intersection(a, b) ==
    LET w == Min2(a[3], b[3]) - Max2(a[1], b[1])
        h == Min2(a[4], b[4]) - Max2(a[2], b[2])
    IN  IF w > 0 /\ h > 0 THEN w * h ELSE 0

UnionArea(a, b) == Area(a) + Area(b) - Intersection(a, b)

\* IOU(a, b) >= 0.3
IouAccepted(a, b) ==
    IouThresholdDen * Intersection(a, b) >= IouThresholdNum * UnionArea(a, b)

\* cost = 1 - IOU as the fraction <<numerator, denominator>>
Cost(a, b) == <<UnionArea(a, b) - Intersection(a, b), UnionArea(a, b)>>

FracAdd(p, q) == <<p[1] * q[2] + q[1] * p[2], p[2] * q[2]>>
FracLess(p, q) == p[1] * q[2] < q[1] * p[2]

Injections(n, m) ==
    {f \in [1..n -> 1..m] : \A a, b \in 1..n : f[a] = f[b] => a = b}

\* The one-to-one matchings of M tracks and N detections that pair every
\* row or every column: sets of <<track index, detection index>>.
Matchings(M, N) ==
    IF M <= N
    THEN {{<<t, f[t]>> : t \in 1..M} : f \in Injections(M, N)}
    ELSE {{<<f[d], d>> : d \in 1..N} : f \in Injections(N, M)}

RECURSIVE TotalCost(_, _, _)
TotalCost(m, boxes, dets) ==
    IF m = {}
    THEN <<0, 1>>
    ELSE LET p == CHOOSE q \in m : TRUE
         IN  FracAdd(Cost(boxes[p[1]], dets[p[2]]), TotalCost(m \ {p}, boxes, dets))

\* Pair p comes before pair q in the greedy order: lower cost first, lower
\* indices on equal cost.
BestFirst(p, q, boxes, dets) ==
    LET cp == Cost(boxes[p[1]], dets[p[2]])
        cq == Cost(boxes[q[1]], dets[q[2]])
    IN  \/ FracLess(cp, cq)
        \/ /\ ~FracLess(cq, cp)
           /\ (p[1] < q[1] \/ (p[1] = q[1] /\ p[2] <= q[2]))

RECURSIVE GreedyFrom(_, _, _, _)
\* Greedy best-pair-first matching of tracks T and detections D: take the
\* first remaining pair of the greedy order, drop its row and column.
GreedyFrom(T, D, boxes, dets) ==
    IF T = {} \/ D = {}
    THEN {}
    ELSE LET p == CHOOSE c \in T \X D :
                     \A e \in T \X D : BestFirst(c, e, boxes, dets)
         IN  {p} \cup GreedyFrom(T \ {p[1]}, D \ {p[2]}, boxes, dets)

\* Bug variant of the Assigner: the greedy matching as the candidate.
GreedyMatchings(boxes, dets) ==
    {GreedyFrom(1..Len(boxes), 1..Len(dets), boxes, dets)}

\* Assigner: the matchings of minimum total cost
OptimalMatchings(boxes, dets) ==
    LET all == Matchings(Len(boxes), Len(dets))
        cost == [m \in all |-> TotalCost(m, boxes, dets)]
    IN  {m \in all : \A m2 \in all : ~FracLess(cost[m2], cost[m])}

\* Bug variant of the acceptance test: every candidate pair is accepted.
AcceptedPairs_all(m, boxes, dets) == m

\* The candidate pairs at or above the overlap threshold
AcceptedPairs(m, boxes, dets) ==
    {p \in m : IouAccepted(boxes[p[1]], dets[p[2]])}

\* Bug variant of the Assigner output: the two sides of a discarded pair are
\* not listed as unmatched.
Assigner_discards_silently(boxes, dets, m) ==
    LET matched == AcceptedPairs(m, boxes, dets)
    IN  [trks |-> boxes,
         dets |-> dets,
         candidate |-> m,
         matched |-> matched,
         unmatched_trks |-> {t \in 1..Len(boxes) : ~\E p \in m : p[1] = t},
         unmatched_dets |-> {d \in 1..Len(dets) : ~\E p \in m : p[2] = d}]

\* Assigner output for candidate matching m: the accepted pairs and the
\* unmatched indices; the two sides of a discarded pair become unmatched.
Assigner(boxes, dets, m) ==
    LET matched == AcceptedPairs(m, boxes, dets)
    IN  [trks |-> boxes,
         dets |-> dets,
         candidate |-> m,
         matched |-> matched,
         unmatched_trks |-> {t \in 1..Len(boxes) : ~\E p \in matched : p[1] = t},
         unmatched_dets |-> {d \in 1..Len(dets) : ~\E p \in matched : p[2] = d}]

NoAssignment ==
    [trks |-> <<>>, dets |-> <<>>, candidate |-> {}, matched |-> {},
     unmatched_trks |-> {}, unmatched_dets |-> {}]

BoxAdd(b, v) == <<b[1] + v[1], b[2] + v[2], b[3] + v[3], b[4] + v[4]>>
BoxSub(b, c) == <<b[1] - c[1], b[2] - c[2], b[3] - c[3], b[4] - c[4]>>
BoxOf(det) == <<det[1], det[2], det[3], det[4]>>

\* Bug variant of predict: the total hits count is reset with the streak.
Predict_resets_hits(trk) ==
    [trk EXCEPT !.box = BoxAdd(trk.box, trk.vel),
                !.age = @ + 1,
                !.hits = IF trk.time_since_update > 0 THEN 0 ELSE @,
                !.hit_streak = IF trk.time_since_update > 0 THEN 0 ELSE @,
                !.time_since_update = @ + 1]

\* MotionModel.predict
Predict(trk) ==
    [trk EXCEPT !.box = BoxAdd(trk.box, trk.vel),
                !.age = @ + 1,
                !.hit_streak = IF trk.time_since_update > 0 THEN 0 ELSE @,
                !.time_since_update = @ + 1]

\* Bug variant of update: the time since the last match is not reset.
Update_keeps_time_since_update(trk, det) ==
    [trk EXCEPT !.vel = BoxAdd(trk.vel, BoxSub(BoxOf(det), trk.box)),
                !.box = BoxOf(det),
                !.hits = @ + 1,
                !.hit_streak = @ + 1]

\* MotionModel.update
Update(trk, det) ==
    [trk EXCEPT !.vel = BoxAdd(trk.vel, BoxSub(BoxOf(det), trk.box)),
                !.box = BoxOf(det),
                !.time_since_update = 0,
                !.hits = @ + 1,
                !.hit_streak = @ + 1]

\* A new Track: state from the detection box, zero velocity
KalmanBoxTracker(det, id) ==
    [id |-> id, box |-> BoxOf(det), vel |-> <<0, 0, 0, 0>>,
     age |-> 0, hits |-> 0, hit_streak |-> 0, time_since_update |-> 0]

\* Bug variant of the liveness test: a track is kept one step longer.
IsAlive_late(trk) == trk.time_since_update <= max_age + 1

IsAlive(trk) == trk.time_since_update <= max_age

\* Bug variant of the return filter: no test that the track was updated in
\* this step.
Reported_without_update_test(trk, fc) ==
    trk.hit_streak >= min_hits \/ fc <= min_hits

\* A track is returned when it was updated in this step and is confirmed or
\* the tracker is still in its first min_hits steps.
Reported(trk, fc) ==
    /\ trk.time_since_update < 1
    /\ (trk.hit_streak >= min_hits \/ fc <= min_hits)

RECURSIVE Ascending(_)
\* A finite set of integers as the ascending sequence of its elements
Ascending(S) ==
    IF S = {}
    THEN <<>>
    ELSE LET lo == CHOOSE x \in S : \A y \in S : x <= y
         IN  <<lo>> \o Ascending(S \ {lo})

\* TrackManager step on detections dets with candidate matching m: the new
\* tracker fields, the returned track list and the ids created and removed.
SortUpdate(trks, cnt, fc, dets, m) ==
    LET predicted == [i \in 1..Len(trks) |-> Predict(trks[i])]
        boxes == [i \in 1..Len(trks) |-> predicted[i].box]
        asg == Assigner(boxes, dets, m)
        updated ==
            [i \in 1..Len(trks) |->
                IF \E p \in asg.matched : p[1] = i
                THEN Update(predicted[i],
                            dets[(CHOOSE p \in asg.matched : p[1] = i)[2]])
                ELSE predicted[i]]
        unmatched_dets == Ascending(asg.unmatched_dets)
        created ==
            [k \in 1..Len(unmatched_dets) |->
                KalmanBoxTracker(dets[unmatched_dets[k]], cnt + k - 1)]
        all == updated \o created
        alive == SelectSeq(all, IsAlive)
        IsReported(trk) == Reported(trk, fc + 1)
        reported == SelectSeq(alive, IsReported)
    IN  [trackers |-> alive,
         count |-> cnt + Len(created),
         frame_count |-> fc + 1,
         assignment |-> asg,
         ret |-> [k \in 1..Len(reported) |->
                    <<reported[k].box[1], reported[k].box[2],
                      reported[k].box[3], reported[k].box[4], reported[k].id>>],
         created |-> [k \in 1..Len(created) |-> created[k].id],
         removed |-> {all[i].id : i \in {j \in 1..Len(all) : ~IsAlive(all[j])}}]

PredictedBoxes(trks) == [i \in 1..Len(trks) |-> Predict(trks[i]).box]

\* ------------------------------------------------------------------------
\* src/apps/cli.py: the video loop of main
\* ------------------------------------------------------------------------
\* Config.FRAME_SKIP, read from the environment (default 40); 2 here
FRAME_SKIP == 2

\* Vehicle boxes of one frame, all 4 wide.  Boxes 1 apart overlap with IOU
\* 3/5 (2..6 and 3..7), 2 apart with 1/3 (0..4 and 2..6, 3..7 and 5..9),
\* 3 apart with 1/7 (0..4 and 3..7, 2..6 and 5..9); 0..4 and 5..9 are
\* disjoint.
VehicleXExtents == {<<0, 4>>, <<2, 6>>, <<3, 7>>, <<5, 9>>}

\* detector.detect_vehicles rows (x1, y1, x2, y2, score, class_id)
VehicleDetections == {<<x[1], 0, x[2], 2, 90, 2>> : x \in VehicleXExtents}

RECURSIVE SeqOfSet(_)
\* The rows of a set of detections in ascending order of x1
SeqOfSet(S) ==
    IF S = {}
    THEN <<>>
    ELSE LET lo == CHOOSE d \in S : \A e \in S : d[1] <= e[1]
         IN  <<lo>> \o SeqOfSet(S \ {lo})

\* The detection lists a frame can yield: up to MaxDets distinct boxes
FrameDetections ==
    {SeqOfSet(S) : S \in {T \in SUBSET VehicleDetections : Cardinality(T) <= MaxDets}}

\* tracking_data = np.array([[d[0], d[1], d[2], d[3], d[4]] for d in detections])
TrackingData(dets) ==
    [i \in 1..Len(dets) |-> <<dets[i][1], dets[i][2], dets[i][3], dets[i][4], dets[i][5]>>]

InitMain ==
    /\ trackers = <<>>
    /\ count = 1
    /\ frame_count = 0
    /\ assignment = NoAssignment
    /\ frame_nmr = -1
    /\ ret = TRUE
    /\ tracking_data = <<>>
    /\ track_ids = <<>>
    /\ issued = <<>>
    /\ retired = {}
    /\ update_calls = <<>>
    /\ track_bbs_ids = <<>>
    /\ sessions = <<>>

\* Bug variant of the frame body: a new Sort() made for every frame.
TrackVehicles_new_tracker(dets) ==
    /\ tracking_data' = TrackingData(dets)
    /\ IF Len(TrackingData(dets)) > 0
       THEN \E m \in OptimalMatchings(<<>>, TrackingData(dets)) :
               LET r == SortUpdate(<<>>, 1, 0, TrackingData(dets), m)
               IN  /\ trackers' = r.trackers
                   /\ count' = r.count
                   /\ frame_count' = r.frame_count
                   /\ assignment' = r.assignment
                   /\ track_ids' = r.ret
                   /\ issued' = issued \o r.created
                   /\ retired' = retired \cup {trackers[i].id : i \in 1..Len(trackers)}
                   /\ update_calls' = Append(update_calls, frame_nmr + 1)
       ELSE /\ track_ids' = <<>>
            /\ UNCHANGED <<sortVars, histVars>>

\* tracking_data = np.array([[d[0], d[1], d[2], d[3], d[4]] for d in detections])
\* track_ids = mot_tracker.update(tracking_data) if len(tracking_data) > 0
\*             else np.array([])
\* (frame_nmr + 1 is the number of the frame being processed)
TrackVehicles(dets) ==
    /\ tracking_data' = TrackingData(dets)
    /\ IF Len(TrackingData(dets)) > 0
       THEN \E m \in OptimalMatchings(PredictedBoxes(trackers), TrackingData(dets)) :
               LET r == SortUpdate(trackers, count, frame_count, TrackingData(dets), m)
               IN  /\ trackers' = r.trackers
                   /\ count' = r.count
                   /\ frame_count' = r.frame_count
                   /\ assignment' = r.assignment
                   /\ track_ids' = r.ret
                   /\ issued' = issued \o r.created
                   /\ retired' = retired \cup r.removed
                   /\ update_calls' = Append(update_calls, frame_nmr + 1)
       ELSE /\ track_ids' = <<>>
            /\ UNCHANGED <<sortVars, histVars>>

\* while ret: frame_nmr += 1; ret, frame = cap.read() with a frame that is
\* processed (frame_nmr % FRAME_SKIP == 0)
ProcessedFrame ==
    /\ ret
    /\ frame_nmr + 1 <= MaxFrameNmr
    /\ (frame_nmr + 1) % FRAME_SKIP = 0
    /\ frame_nmr' = frame_nmr + 1
    /\ ret' = TRUE
    /\ \E dets \in FrameDetections : TrackVehicles(dets)
    /\ UNCHANGED <<textVars, ocrVars, carVars, appVars, svcVars>>

\* a frame that is read and skipped
SkippedFrame ==
    /\ ret
    /\ frame_nmr + 1 <= MaxFrameNmr
    /\ (frame_nmr + 1) % FRAME_SKIP # 0
    /\ frame_nmr' = frame_nmr + 1
    /\ ret' = TRUE
    /\ UNCHANGED <<sortVars, histVars, tracking_data, track_ids>>
    /\ UNCHANGED <<textVars, ocrVars, carVars, appVars, svcVars>>

\* cap.read() returns ret = False: the loop ends
EndOfVideo ==
    /\ ret
    /\ frame_nmr' = frame_nmr + 1
    /\ ret' = FALSE
    /\ UNCHANGED <<sortVars, histVars, tracking_data, track_ids>>
    /\ UNCHANGED <<textVars, ocrVars, carVars, appVars, svcVars>>

\* ------------------------------------------------------------------------
\* The Assigner on its own: one association of live tracks and detections
\* ------------------------------------------------------------------------
\* The tracks left by a first step on some frame, and the detections of the
\* next processed frame
InitAssigner ==
    /\ \E dets \in FrameDetections :
          /\ trackers = [k \in 1..Len(dets) |-> KalmanBoxTracker(dets[k], k)]
          /\ count = Len(dets) + 1
          /\ frame_count = IF Len(dets) > 0 THEN 1 ELSE 0
          /\ issued = [k \in 1..Len(dets) |-> k]
    /\ tracking_data \in {TrackingData(dets) : dets \in FrameDetections}
    /\ assignment = NoAssignment
    /\ frame_nmr = -1
    /\ ret = FALSE
    /\ track_ids = <<>>
    /\ retired = {}
    /\ update_calls = <<>>
    /\ track_bbs_ids = <<>>
    /\ sessions = <<>>

\* Steps 1 to 3 of the tracker step: predict, cost matrix, Assigner
Associate ==
    /\ assignment = NoAssignment
    /\ \E m \in OptimalMatchings(PredictedBoxes(trackers), tracking_data) :
          assignment' = Assigner(PredictedBoxes(trackers), tracking_data, m)
    /\ UNCHANGED <<trackers, count, frame_count, loopVars, histVars, appVars>>
    /\ UNCHANGED <<textVars, ocrVars, carVars, svcVars>>

\* ------------------------------------------------------------------------
\* src/deploy.py: the video loop of process_video
\* ------------------------------------------------------------------------
\* frame_skip of deploy.py (40 there); 2 here
frame_skip == 2

\* mot_tracker = Sort() at module level; ret = True; frame_nmr = 0
InitDeploy ==
    /\ trackers = <<>>
    /\ count = 1
    /\ frame_count = 0
    /\ assignment = NoAssignment
    /\ frame_nmr = 0
    /\ ret = TRUE
    /\ tracking_data = <<>>
    /\ track_ids = <<>>
    /\ issued = <<>>
    /\ retired = {}
    /\ update_calls = <<>>
    /\ track_bbs_ids = <<>>
    /\ sessions = <<>>

\* tracking_data = np.array([d[:5] for d in detections_])
\* track_bbs_ids = mot_tracker.update(tracking_data)
\* ...
\* track_ids = mot_tracker.update(np.asarray(detections_))
DeployTrackVehicles(detections_) ==
    /\ tracking_data' = TrackingData(detections_)
    /\ \E m1 \in OptimalMatchings(PredictedBoxes(trackers), TrackingData(detections_)) :
          LET r1 == SortUpdate(trackers, count, frame_count,
                               TrackingData(detections_), m1)
          IN  \E m2 \in OptimalMatchings(PredictedBoxes(r1.trackers), detections_) :
                  LET r2 == SortUpdate(r1.trackers, r1.count, r1.frame_count,
                                       detections_, m2)
                  IN  /\ track_bbs_ids' = r1.ret
                      /\ trackers' = r2.trackers
                      /\ count' = r2.count
                      /\ frame_count' = r2.frame_count
                      /\ assignment' = r2.assignment
                      /\ track_ids' = r2.ret
                      /\ issued' = issued \o r1.created \o r2.created
                      /\ retired' = retired \cup r1.removed \cup r2.removed
                      /\ update_calls' = update_calls \o <<frame_nmr + 1, frame_nmr + 1>>

\* while ret: frame_nmr += 1; ret, frame = cap.read() with a frame that is
\* read and processed (frame_nmr % frame_skip == 0)
DeployProcessedFrame ==
    /\ ret
    /\ frame_nmr + 1 <= MaxFrameNmr
    /\ (frame_nmr + 1) % frame_skip = 0
    /\ frame_nmr' = frame_nmr + 1
    /\ ret' = TRUE
    /\ \E detections_ \in FrameDetections : DeployTrackVehicles(detections_)
    /\ UNCHANGED sessions
    /\ UNCHANGED <<textVars, ocrVars, carVars, svcVars>>

\* a frame that is read and skipped
DeploySkippedFrame ==
    /\ ret
    /\ frame_nmr + 1 <= MaxFrameNmr
    /\ (frame_nmr + 1) % frame_skip # 0
    /\ frame_nmr' = frame_nmr + 1
    /\ ret' = TRUE
    /\ UNCHANGED <<sortVars, histVars, tracking_data, track_ids, appVars>>
    /\ UNCHANGED <<textVars, ocrVars, carVars, svcVars>>

\* cap.read() returns ret = False: the loop ends
DeployEndOfVideo ==
    /\ ret
    /\ frame_nmr' = frame_nmr + 1
    /\ ret' = FALSE
    /\ UNCHANGED <<sortVars, histVars, tracking_data, track_ids, appVars>>
    /\ UNCHANGED <<textVars, ocrVars, carVars, svcVars>>

\* ------------------------------------------------------------------------
\* src/apps/web_streamlit.py: one Sort instance per processed upload
\* ------------------------------------------------------------------------
\* Config.VEHICLE_CLASS_IDS
VEHICLE_CLASS_IDS == {2, 3, 5, 7}

\* score > 0.5, scores in hundredths
MinVehicleScore == 50

\* Rows of vehicle_results.boxes.data: two cars, a car of low score and a
\* box of a class that is no vehicle
VehicleResultRows ==
    {<<0, 0, 4, 2, 90, 2>>, <<2, 0, 6, 2, 90, 2>>,
     <<5, 0, 9, 2, 40, 2>>, <<5, 0, 9, 2, 90, 0>>}

\* The result lists a frame can yield: up to MaxDets distinct rows
VehicleResults ==
    {SeqOfSet(S) : S \in {T \in SUBSET VehicleResultRows : Cardinality(T) <= MaxDets}}

\* if int(class_id) in Config.VEHICLE_CLASS_IDS and score > 0.5
IsVehicleDetection(det) == det[6] \in VEHICLE_CLASS_IDS /\ det[5] > MinVehicleScore

\* tracker = Sort()
Sort == [trackers |-> <<>>, count |-> 1, frame_count |-> 0]

\* Bug variant of the step of one instance: the id counter is kept on the
\* class, so the step moves the counter of every instance.
WebSortUpdate_class_counter(ss, k, dets, m) ==
    LET r == SortUpdate(ss[k].trackers, ss[k].count, ss[k].frame_count, dets, m)
    IN  [j \in 1..Len(ss) |->
            IF j = k
            THEN [ss[j] EXCEPT !.trackers = r.trackers,
                               !.count = r.count,
                               !.frame_count = r.frame_count,
                               !.track_ids = r.ret]
            ELSE [ss[j] EXCEPT !.count = r.count]]

\* tracker.update(tracking_data) on the instance of session k
WebSortUpdate(ss, k, dets, m) ==
    LET r == SortUpdate(ss[k].trackers, ss[k].count, ss[k].frame_count, dets, m)
    IN  [ss EXCEPT ![k] = [@ EXCEPT !.trackers = r.trackers,
                                    !.count = r.count,
                                    !.frame_count = r.frame_count,
                                    !.track_ids = r.ret]]

\* process_frame(frame, ..., tracker) for session k of sessions ss: the
\* sessions after the call
process_frame(ss, k, vehicle_results) ==
    LET vehicle_detections == SelectSeq(vehicle_results, IsVehicleDetection)
    IN  IF Len(vehicle_detections) > 0
        THEN {WebSortUpdate(ss, k, TrackingData(vehicle_detections), m) :
                 m \in OptimalMatchings(PredictedBoxes(ss[k].trackers),
                                        TrackingData(vehicle_detections))}
        ELSE {[ss EXCEPT ![k].track_ids = <<>>]}

\* A session of the app: its Sort instance, the last track list and the
\* position of its video loop
NewSession(running) ==
    [trackers |-> Sort.trackers, count |-> Sort.count,
     frame_count |-> Sort.frame_count,
     track_ids |-> <<>>, frame_idx |-> 0, running |-> running]

\* Image mode: tracker = Sort(); detections = process_frame(image, ...)
ProcessImage ==
    /\ Len(sessions) < MaxSessions
    /\ \E vehicle_results \in VehicleResults :
          sessions' \in process_frame(Append(sessions, NewSession(FALSE)),
                                      Len(sessions) + 1, vehicle_results)
    /\ UNCHANGED <<sortVars, loopVars, histVars, track_bbs_ids>>
    /\ UNCHANGED <<textVars, ocrVars, carVars, svcVars>>

\* Video mode: tracker = Sort(); frame_idx = 0
StartVideo ==
    /\ Len(sessions) < MaxSessions
    /\ sessions' = Append(sessions, NewSession(TRUE))
    /\ UNCHANGED <<sortVars, loopVars, histVars, track_bbs_ids>>
    /\ UNCHANGED <<textVars, ocrVars, carVars, svcVars>>

\* A frame of a video with frame_idx % frame_skip == 0
WebProcessedFrame ==
    /\ \E k \in 1..Len(sessions) :
          /\ sessions[k].running
          /\ sessions[k].frame_idx <= MaxFrameIdx
          /\ sessions[k].frame_idx % frame_skip = 0
          /\ \E vehicle_results \in VehicleResults :
                \E ss \in process_frame(sessions, k, vehicle_results) :
                    sessions' = [ss EXCEPT ![k].frame_idx = @ + 1]
    /\ UNCHANGED <<sortVars, loopVars, histVars, track_bbs_ids>>
    /\ UNCHANGED <<textVars, ocrVars, carVars, svcVars>>

\* A frame of a video that is written out unprocessed
WebSkippedFrame ==
    /\ \E k \in 1..Len(sessions) :
          /\ sessions[k].running
          /\ sessions[k].frame_idx <= MaxFrameIdx
          /\ sessions[k].frame_idx % frame_skip # 0
          /\ sessions' = [sessions EXCEPT ![k].frame_idx = @ + 1]
    /\ UNCHANGED <<sortVars, loopVars, histVars, track_bbs_ids>>
    /\ UNCHANGED <<textVars, ocrVars, carVars, svcVars>>

\* ret is False: break
WebEndOfVideo ==
    /\ \E k \in 1..Len(sessions) :
          /\ sessions[k].running
          /\ sessions' = [sessions EXCEPT ![k].running = FALSE]
    /\ UNCHANGED <<sortVars, loopVars, histVars, track_bbs_ids>>
    /\ UNCHANGED <<textVars, ocrVars, carVars, svcVars>>

\* ------------------------------------------------------------------------
\* src/config.py: Firebase settings read from the environment
\* ------------------------------------------------------------------------
\* The environment variables the Firebase settings are read from.
EnvNames == {"FIREBASE_DATABASE_URL", "FIREBASE_STORAGE_BUCKET"}

\* A name that is absent from os.environ maps to Unset.
Unset == "<unset>"

\* The strings an environment variable or a Config attribute may hold.
EnvStrings == {"", "anpr-a", "anpr-b"}

\* os.environ.get(name, default)
os_environ_get(env, name, default) ==
    IF env[name] = Unset THEN default ELSE env[name]

\* The body of class Config: executed once, when the module is imported.
LoadConfig(env) == [n \in EnvNames |-> os_environ_get(env, n, "")]

ValueError == [outcome |-> "ValueError"]

\* Bug variant of get_firebase_config: raises only when both settings are
\* empty.
get_firebase_config_both_empty(cfg) ==
    IF cfg["FIREBASE_DATABASE_URL"] = "" /\ cfg["FIREBASE_STORAGE_BUCKET"] = ""
    THEN ValueError
    ELSE [outcome |-> "dict",
          databaseURL |-> cfg["FIREBASE_DATABASE_URL"],
          storageBucket |-> cfg["FIREBASE_STORAGE_BUCKET"]]

\* get_firebase_config: reads the attributes of Config, never os.environ.
get_firebase_config(cfg) ==
    IF cfg["FIREBASE_DATABASE_URL"] = "" \/ cfg["FIREBASE_STORAGE_BUCKET"] = ""
    THEN ValueError
    ELSE [outcome |-> "dict",
          databaseURL |-> cfg["FIREBASE_DATABASE_URL"],
          storageBucket |-> cfg["FIREBASE_STORAGE_BUCKET"]]

NotCalled == [outcome |-> "none"]

\* The state after `import config`: Config holds what os.environ held then.
InitConfig ==
    /\ environ \in [EnvNames -> EnvStrings \cup {Unset}]
    /\ Config = LoadConfig(environ)
    /\ pcConfig = "imported"
    /\ configResult = NotCalled

\* os.environ[name] = value (tests/test_config.py:77-78)
SetEnv ==
    \E n \in EnvNames, v \in EnvStrings :
        /\ environ' = [environ EXCEPT ![n] = v]
        /\ pcConfig' = "running"
        /\ UNCHANGED <<Config, configResult>>
        /\ UNCHANGED <<textVars, ocrVars, carVars, trackVars, svcButConfig>>

\* os.environ.pop(name, None) (tests/test_config.py:89-90)
PopEnv ==
    \E n \in EnvNames :
        /\ environ' = [environ EXCEPT ![n] = Unset]
        /\ pcConfig' = "running"
        /\ UNCHANGED <<Config, configResult>>
        /\ UNCHANGED <<textVars, ocrVars, carVars, trackVars, svcButConfig>>

\* Config.NAME = value (tests/test_config.py:93-94)
AssignConfig ==
    \E n \in EnvNames, v \in EnvStrings :
        /\ Config' = [Config EXCEPT ![n] = v]
        /\ pcConfig' = "running"
        /\ UNCHANGED <<environ, configResult>>
        /\ UNCHANGED <<textVars, ocrVars, carVars, trackVars, svcButConfig>>

\* A call of get_firebase_config(); pcConfig = "returned" in the state the
\* call left behind.
GetFirebaseConfig ==
    /\ configResult' = get_firebase_config(Config)
    /\ pcConfig' = "returned"
    /\ UNCHANGED <<environ, Config>>
    /\ UNCHANGED <<textVars, ocrVars, carVars, trackVars, svcButConfig>>

\* ------------------------------------------------------------------------
\* src/anpr/integrations/firebase.py: FirebaseManager
\* ------------------------------------------------------------------------
\* The value None of an attribute that holds no object.
None == "None"

\* What the calls into firebase_admin made by initialize may do: all
\* succeed, credentials.Certificate raises, firebase_admin.initialize_app
\* raises, or db.reference raises after the app was created.
SdkOutcomes ==
    {"ok", "certificate_raises", "initialize_app_raises", "reference_raises"}

Constructors == {"FirebaseManager", "get_firebase_manager"}

DataOps == {"upload_to_storage", "push_data", "set_data", "get_data"}

\* What a call on the manager did: how it ended, the object a constructor
\* returned, whether os.path.exists was asked about the credentials file and
\* whether firebase_admin was called.
CallResult(op, path, outcome, object, checked, contacted) ==
    [op |-> op, path |-> path, outcome |-> outcome, object |-> object,
     checked_credentials |-> checked, contacted |-> contacted]

NoCall == CallResult("none", "", "none", 0, FALSE, FALSE)

\* The database paths the applications write to and read from.
WritePaths == {"users_detected", "flagged", "flagged_details"}
ReadPaths == {"users_detected", "users_database"}

\* Bug variant of the constructor: __new__ makes a new object on every call,
\* whose _initialized is the class attribute False.
FirebaseManager_no_singleton(inst, init, a, r) ==
    [instance |-> inst + 1, initialized |-> TRUE, app |-> None, ref |-> None]

\* FirebaseManager(): __new__ creates the object once and returns
\* cls._instance ever after; __init__ sets app and ref to None only while
\* _initialized is False.  instance counts the objects created; the object
\* returned is number instance.
FirebaseManager(inst, init, a, r) ==
    [instance |-> IF inst = 0 THEN 1 ELSE inst,
     initialized |-> TRUE,
     app |-> IF ~init THEN None ELSE a,
     ref |-> IF ~init THEN None ELSE r]

\* Bug variant of initialize: no early return when the app is already set.
initialize_no_guard(a, r, exists, sdk) ==
    IF ~exists
    THEN [app |-> a, ref |-> r, outcome |-> "FileNotFoundError",
          checked |-> TRUE, contacted |-> FALSE]
    ELSE IF sdk = "certificate_raises"
    THEN [app |-> a, ref |-> r, outcome |-> "Exception",
          checked |-> TRUE, contacted |-> FALSE]
    ELSE IF sdk = "initialize_app_raises"
    THEN [app |-> a, ref |-> r, outcome |-> "Exception",
          checked |-> TRUE, contacted |-> TRUE]
    ELSE IF sdk = "reference_raises"
    THEN [app |-> "App", ref |-> r, outcome |-> "Exception",
          checked |-> TRUE, contacted |-> TRUE]
    ELSE [app |-> "App", ref |-> "Ref", outcome |-> "initialized",
          checked |-> TRUE, contacted |-> TRUE]

\* initialize(credentials_path, database_url, storage_bucket): exists is
\* os.path.exists(credentials_path), sdk what firebase_admin does.  The
\* except clause logs and re-raises; it assigns nothing.
initialize(a, r, exists, sdk) ==
    IF a # None
    THEN [app |-> a, ref |-> r, outcome |-> "already_initialized",
          checked |-> FALSE, contacted |-> FALSE]
    ELSE IF ~exists
    THEN [app |-> a, ref |-> r, outcome |-> "FileNotFoundError",
          checked |-> TRUE, contacted |-> FALSE]
    ELSE IF sdk = "certificate_raises"
    THEN [app |-> a, ref |-> r, outcome |-> "Exception",
          checked |-> TRUE, contacted |-> FALSE]
    ELSE IF sdk = "initialize_app_raises"
    THEN [app |-> a, ref |-> r, outcome |-> "Exception",
          checked |-> TRUE, contacted |-> TRUE]
    ELSE IF sdk = "reference_raises"
    THEN [app |-> "App", ref |-> r, outcome |-> "Exception",
          checked |-> TRUE, contacted |-> TRUE]
    ELSE [app |-> "App", ref |-> "Ref", outcome |-> "initialized",
          checked |-> TRUE, contacted |-> TRUE]

\* upload_to_storage: tests self.app, then calls the storage bucket; a
\* failure there is re-raised as IOError.
upload_to_storage(a, sdk_ok) ==
    IF a = None THEN [outcome |-> "RuntimeError", contacted |-> FALSE]
    ELSE IF sdk_ok THEN [outcome |-> "returned", contacted |-> TRUE]
    ELSE [outcome |-> "IOError", contacted |-> TRUE]

\* push_data, set_data, get_data: test self.ref, then call the database
\* reference; a failure there is logged and re-raised.
database_op(r, sdk_ok) ==
    IF r = None THEN [outcome |-> "RuntimeError", contacted |-> FALSE]
    ELSE IF sdk_ok THEN [outcome |-> "returned", contacted |-> TRUE]
    ELSE [outcome |-> "Exception", contacted |-> TRUE]

\* The state of the module before any FirebaseManager is constructed.
InitFirebase ==
    /\ instance = 0
    /\ initialized = FALSE
    /\ app = None
    /\ ref = None
    /\ init_succeeded = FALSE
    /\ fbTick = 0
    /\ fbResult = NoCall
    /\ database = {}

\* FirebaseManager() or get_firebase_manager()
Construct ==
    \E op \in Constructors :
        LET m == FirebaseManager(instance, initialized, app, ref) IN
            /\ instance' = m.instance
            /\ initialized' = m.initialized
            /\ app' = m.app
            /\ ref' = m.ref
            /\ fbResult' = CallResult(op, "", "returned", m.instance, FALSE, FALSE)
            /\ fbTick' = 1 - fbTick
            /\ UNCHANGED <<init_succeeded, database>>
            /\ UNCHANGED <<textVars, ocrVars, carVars, trackVars, svcButFirebase>>

\* manager.initialize(...)
Initialize ==
    /\ instance > 0
    /\ \E exists \in BOOLEAN, sdk \in SdkOutcomes :
        LET i == initialize(app, ref, exists, sdk) IN
            /\ app' = i.app
            /\ ref' = i.ref
            /\ init_succeeded' = (init_succeeded \/ i.outcome = "initialized")
            /\ fbResult' = CallResult("initialize", "", i.outcome, 0, i.checked, i.contacted)
            /\ fbTick' = 1 - fbTick
            /\ UNCHANGED <<instance, initialized, database>>
            /\ UNCHANGED <<textVars, ocrVars, carVars, trackVars, svcButFirebase>>

\* manager.upload_to_storage(...)
UploadToStorage ==
    /\ instance > 0
    /\ \E sdk_ok \in BOOLEAN :
        LET u == upload_to_storage(app, sdk_ok) IN
            /\ fbResult' = CallResult("upload_to_storage", "", u.outcome, 0, FALSE, u.contacted)
            /\ fbTick' = 1 - fbTick
            /\ UNCHANGED <<instance, initialized, app, ref, init_succeeded, database>>
            /\ UNCHANGED <<textVars, ocrVars, carVars, trackVars, svcButFirebase>>

\* manager.push_data(path, data) or manager.set_data(path, data): on success
\* the path holds data afterwards.
WriteData ==
    /\ instance > 0
    /\ \E op \in {"push_data", "set_data"}, path \in WritePaths, sdk_ok \in BOOLEAN :
        LET d == database_op(ref, sdk_ok) IN
            /\ fbResult' = CallResult(op, path, d.outcome, 0, FALSE, d.contacted)
            /\ database' = IF d.outcome = "returned"
                            THEN database \cup {path} ELSE database
            /\ fbTick' = 1 - fbTick
            /\ UNCHANGED <<instance, initialized, app, ref, init_succeeded>>
            /\ UNCHANGED <<textVars, ocrVars, carVars, trackVars, svcButFirebase>>

\* manager.get_data(path)
GetData ==
    /\ instance > 0
    /\ \E path \in ReadPaths, sdk_ok \in BOOLEAN :
        LET d == database_op(ref, sdk_ok) IN
            /\ fbResult' = CallResult("get_data", path, d.outcome, 0, FALSE, d.contacted)
            /\ fbTick' = 1 - fbTick
            /\ UNCHANGED <<instance, initialized, app, ref, init_succeeded, database>>
            /\ UNCHANGED <<textVars, ocrVars, carVars, trackVars, svcButFirebase>>

\* ------------------------------------------------------------------------
\* src/main_refactored.py: the video loop with its per-frame records
\* ------------------------------------------------------------------------
MaxRecordFrameNmr == 2

\* Vehicle rows of one frame, 5 wide and 3 high: 0..5 and 2..7 overlap with
\* IOU 3/7, 6..11 touches neither.
RecordVehicleDetections ==
    {<<0, 0, 5, 3, 90, 2>>, <<2, 0, 7, 3, 90, 2>>, <<6, 0, 11, 3, 90, 2>>}

RecordFrameDetections ==
    {SeqOfSet(S) :
        S \in {T \in SUBSET RecordVehicleDetections : Cardinality(T) <= MaxDets}}

\* detector.detect_license_plates rows (x1, y1, x2, y2, score, class_id):
\* 1..2 lies inside the vehicle 0..5 only, 3..4 inside 0..5 and 2..7,
\* 8..9 inside 6..11 only.
RecordPlateDetections ==
    {<<1, 1, 2, 2, 95, 0>>, <<3, 1, 4, 2, 95, 0>>, <<8, 1, 9, 2, 95, 0>>}

\* The plate lists a frame can yield: any of the plates but not all of them
RecordPlateLists ==
    {SeqOfSet(S) : S \in (SUBSET RecordPlateDetections) \ {RecordPlateDetections}}

\* What the OCR reader yields for one plate crop: a candidate that is valid
\* after normalisation, an invalid candidate followed by one valid through
\* look-alikes, an invalid candidate alone, or an exception.
PlateReadings ==
    { [dets |-> << <<0, <<"a", "b", " ", "1", "2", " ", "c", "d", "e">>, 90>> >>,
       raises |-> FALSE],
      [dets |-> << <<0, <<"A", "B", "C", "1", "2", "3">>, 90>>,
                   <<0, <<"0", "B", "I", "I", "3", "D", "E">>, 35>> >>,
       raises |-> FALSE],
      [dets |-> << <<0, <<"A", "B", "-", "2", "C", "D", "E">>, 90>> >>,
       raises |-> FALSE],
      [dets |-> <<>>, raises |-> TRUE] }

\* What the try block after a successful read does: save_detection_images
\* raises, push_data raises, or both succeed.
StoreOutcomes == {"save_raises", "push_raises", "stored"}

\* A reading with what follows it; the try block is entered only after a
\* read that returned a text.
PlateCases ==
    {c \in [reading : PlateReadings, outcome : StoreOutcomes] :
        read_license_plate(c.reading.dets, c.reading.raises).none
            => c.outcome = "stored"}

EmptyDict == [c \in {} |-> 0]

NotProcessed == [ocr |-> FALSE, pushed |-> FALSE, stored |-> FALSE]

\* Bug variant of the plate body: the test car_id != -1 left out.
ProcessPlate_no_car_test(lp, tids, reading, outcome) ==
    LET car == get_car(lp, tids)
        read == read_license_plate(reading.dets, reading.raises)
    IN  IF read.none \/ outcome = "save_raises"
        THEN [ocr |-> TRUE, pushed |-> FALSE, stored |-> FALSE]
        ELSE IF outcome = "push_raises"
        THEN [ocr |-> TRUE, pushed |-> FALSE, stored |-> FALSE]
        ELSE [ocr |-> TRUE, pushed |-> TRUE, stored |-> TRUE,
              car_id |-> car[5],
              record |-> [car_bbox |-> <<car[1], car[2], car[3], car[4]>>,
                          plate_bbox |-> <<lp[1], lp[2], lp[3], lp[4]>>,
                          text |-> read.text,
                          bbox_score |-> lp[5],
                          text_score |-> read.score]]

\* The body of `for license_plate in license_plates` for one plate: get_car,
\* then, for a plate with a vehicle, process_license_plate (which reads the
\* crop with read_license_plate), then, for a text that is not None, the try
\* block that saves the images, pushes to users_detected and stores the
\* record under car_id.
ProcessPlate(lp, tids, reading, outcome) ==
    LET car == get_car(lp, tids)
        read == read_license_plate(reading.dets, reading.raises)
    IN  IF car[5] = -1
        THEN NotProcessed
        ELSE IF read.none \/ outcome = "save_raises"
        THEN [ocr |-> TRUE, pushed |-> FALSE, stored |-> FALSE]
        ELSE IF outcome = "push_raises"
        THEN [ocr |-> TRUE, pushed |-> FALSE, stored |-> FALSE]
        ELSE [ocr |-> TRUE, pushed |-> TRUE, stored |-> TRUE,
              car_id |-> car[5],
              record |-> [car_bbox |-> <<car[1], car[2], car[3], car[4]>>,
                          plate_bbox |-> <<lp[1], lp[2], lp[3], lp[4]>>,
                          text |-> read.text,
                          bbox_score |-> lp[5],
                          text_score |-> read.score]]

RECURSIVE FrameRecords(_, _, _, _)
\* results[frame_nmr] after the first i plates of the frame: a later plate
\* of the same vehicle replaces the record of an earlier one.
FrameRecords(lps, tids, cases, i) ==
    IF i = 0
    THEN EmptyDict
    ELSE LET p == ProcessPlate(lps[i], tids, cases[i].reading, cases[i].outcome)
             before == FrameRecords(lps, tids, cases, i - 1)
         IN  IF p.stored
             THEN [c \in DOMAIN before \cup {p.car_id} |->
                      IF c = p.car_id THEN p.record ELSE before[c]]
             ELSE before

\* The plates of the frame handed to process_license_plate, in order.
OcrCalls(lps, tids, cases) ==
    LET sent(i) == ProcessPlate(lps[i], tids, cases[i].reading, cases[i].outcome).ocr
        idx == SelectSeq([i \in 1..Len(lps) |-> i], sent)
    IN  [k \in 1..Len(idx) |-> lps[idx[k]]]

\* The state when the loop starts: Firebase initialised (line 87), a new
\* Sort(), results = {}.
InitRecords ==
    /\ InitMain
    /\ instance = 1
    /\ initialized = TRUE
    /\ app = "App"
    /\ ref = "Ref"
    /\ init_succeeded = TRUE
    /\ fbTick = 0
    /\ fbResult = CallResult("initialize", "", "initialized", 0, TRUE, TRUE)
    /\ database = {}
    /\ results = EmptyDict
    /\ license_plates = <<>>
    /\ ocr_calls = <<>>

\* A frame that is processed: vehicles are detected and tracked, plates are
\* detected and each plate is handled in turn.
RecordProcessedFrame ==
    /\ ret
    /\ frame_nmr + 1 <= MaxRecordFrameNmr
    /\ (frame_nmr + 1) % FRAME_SKIP = 0
    /\ frame_nmr' = frame_nmr + 1
    /\ ret' = TRUE
    /\ \E dets \in RecordFrameDetections : TrackVehicles(dets)
    /\ \E lps \in RecordPlateLists :
        \E cases \in [1..Len(lps) -> PlateCases] :
            /\ license_plates' = lps
            /\ ocr_calls' = OcrCalls(lps, track_ids', cases)
            /\ results' =
                  [f \in DOMAIN results \cup {frame_nmr + 1} |->
                      IF f = frame_nmr + 1
                      THEN FrameRecords(lps, track_ids', cases, Len(lps))
                      ELSE results[f]]
            /\ database' =
                  IF \E i \in 1..Len(lps) :
                        ProcessPlate(lps[i], track_ids', cases[i].reading,
                                     cases[i].outcome).pushed
                  THEN database \cup {"users_detected"}
                  ELSE database
    /\ UNCHANGED <<instance, initialized, app, ref, init_succeeded, fbTick, fbResult>>
    /\ UNCHANGED <<textVars, ocrVars, carVars, appVars, configVars, gradioVars, flagVars>>

\* A frame that is read and skipped
RecordSkippedFrame ==
    /\ ret
    /\ frame_nmr + 1 <= MaxRecordFrameNmr
    /\ (frame_nmr + 1) % FRAME_SKIP # 0
    /\ frame_nmr' = frame_nmr + 1
    /\ ret' = TRUE
    /\ UNCHANGED <<sortVars, histVars, tracking_data, track_ids>>
    /\ UNCHANGED <<textVars, ocrVars, carVars, appVars, svcVars>>

\* cap.read() returns ret = False: the loop ends
RecordEndOfVideo ==
    /\ ret
    /\ frame_nmr' = frame_nmr + 1
    /\ ret' = FALSE
    /\ UNCHANGED <<sortVars, histVars, tracking_data, track_ids>>
    /\ UNCHANGED <<textVars, ocrVars, carVars, appVars, svcVars>>

\* ------------------------------------------------------------------------
\* src/apps/web_gradio.py: process_video, the vehicle part of the frame body
\* ------------------------------------------------------------------------
MaxGradioFrames == 4

\* Rows of vehicle_results.boxes.data (x1, y1, x2, y2, score, class_id): two
\* cars, a car of low score and a box of a class that is no vehicle
GradioResultRows ==
    {<<0, 0, 4, 2, 90, 2>>, <<1, 0, 5, 3, 90, 2>>,
     <<1, 0, 5, 3, 40, 2>>, <<0, 0, 4, 2, 90, 0>>}

GradioVehicleResults ==
    {SeqOfSet(S) : S \in {T \in SUBSET GradioResultRows : Cardinality(T) <= MaxDets}}

\* x1, y1, y2, x2, score, class_id = det: the third element of the row is
\* bound to y2 and the fourth to x2;
\* vehicle_detections.append([x1, y1, x2, y2, score, class_id])
GradioUnpack(det) == <<det[1], det[2], det[4], det[3], det[5], det[6]>>

\* for det in vehicle_results.boxes.data.tolist(): ... if int(class_id) in
\* Config.VEHICLE_CLASS_IDS and score > 0.5: vehicle_detections.append(...)
GradioVehicleDetections(vr) ==
    LET kept == SelectSeq(vr, IsVehicleDetection)
    IN  [i \in 1..Len(kept) |-> GradioUnpack(kept[i])]

\* mot_tracker = Sort(); frame_count = 0; ret = True.  frame_nmr holds the
\* frame counter of the loop (frame_count in the source, a name the tracker
\* uses as well).
InitGradio ==
    /\ trackers = <<>>
    /\ count = 1
    /\ frame_count = 0
    /\ assignment = NoAssignment
    /\ frame_nmr = 0
    /\ ret = TRUE
    /\ tracking_data = <<>>
    /\ track_ids = <<>>
    /\ issued = <<>>
    /\ retired = {}
    /\ update_calls = <<>>
    /\ track_bbs_ids = <<>>
    /\ sessions = <<>>
    /\ gradio_vehicle_results = <<>>

\* if vehicle_detections: tracking_data = np.array(...); track_ids =
\* mot_tracker.update(tracking_data) else: track_ids = np.array([])
GradioTrackVehicles(dets) ==
    IF Len(dets) > 0
    THEN /\ tracking_data' = TrackingData(dets)
         /\ \E m \in OptimalMatchings(PredictedBoxes(trackers), TrackingData(dets)) :
               LET r == SortUpdate(trackers, count, frame_count, TrackingData(dets), m)
               IN  /\ trackers' = r.trackers
                   /\ count' = r.count
                   /\ frame_count' = r.frame_count
                   /\ assignment' = r.assignment
                   /\ track_ids' = r.ret
                   /\ issued' = issued \o r.created
                   /\ retired' = retired \cup r.removed
                   /\ update_calls' = Append(update_calls, frame_nmr + 1)
    ELSE /\ track_ids' = <<>>
         /\ UNCHANGED <<sortVars, histVars, tracking_data>>

\* while ret: frame_count += 1; ret, frame = cap.read() with a frame that is
\* processed (frame_count % Config.FRAME_SKIP == 0)
GradioProcessedFrame ==
    /\ ret
    /\ frame_nmr + 1 <= MaxGradioFrames
    /\ (frame_nmr + 1) % FRAME_SKIP = 0
    /\ frame_nmr' = frame_nmr + 1
    /\ ret' = TRUE
    /\ \E vr \in GradioVehicleResults :
          /\ gradio_vehicle_results' = vr
          /\ GradioTrackVehicles(GradioVehicleDetections(vr))
    /\ UNCHANGED <<textVars, ocrVars, carVars, appVars>>
    /\ UNCHANGED <<configVars, fbVars, recVars, flagVars>>

\* A frame that is read and skipped
GradioSkippedFrame ==
    /\ ret
    /\ frame_nmr + 1 <= MaxGradioFrames
    /\ (frame_nmr + 1) % FRAME_SKIP # 0
    /\ frame_nmr' = frame_nmr + 1
    /\ ret' = TRUE
    /\ UNCHANGED <<sortVars, histVars, tracking_data, track_ids>>
    /\ UNCHANGED <<textVars, ocrVars, carVars, appVars, svcVars>>

\* cap.read() returns ret = False: the loop ends
GradioEndOfVideo ==
    /\ ret
    /\ frame_nmr' = frame_nmr + 1
    /\ ret' = FALSE
    /\ UNCHANGED <<sortVars, histVars, tracking_data, track_ids>>
    /\ UNCHANGED <<textVars, ocrVars, carVars, appVars, svcVars>>

\* ------------------------------------------------------------------------
\* src/apps/cli.py: process_flagged_vehicles and its call at the end of main
\* ------------------------------------------------------------------------
MaxDbEntries == 2

\* Keys of the users_detected node
Uids == {"u1", "u2"}

\* details.get('license_plate'): a plate text, or None when the key is
\* missing
DetectedPlates == {"AB12CDE", "XY34ZZZ", None}

\* entry.get('License_Plate'): a plate text, the empty string, or None when
\* the key is missing
WatchlistPlates == {"AB12CDE", "QQ11QQQ", "", None}

Owners == {"a", "b"}

\* What get_data('users_detected') can return: a dictionary of details by
\* uid (empty for None)
DetectedDicts ==
    UNION {[U -> [license_plate : DetectedPlates]] : U \in SUBSET Uids}

\* What get_data('users_database') or [] can be: a list of entries
DatabaseLists ==
    UNION {[1..n -> [License_Plate : WatchlistPlates, Owner : Owners]] :
              n \in 0..MaxDbEntries}

\* Python truth value of a plate field
Truthy(v) == v \notin {None, ""}

\* watchlist_plates = {entry.get('License_Plate') for entry in database_data
\*                     if entry.get('License_Plate')}
watchlist_plates(db) ==
    {db[i].License_Plate : i \in {j \in 1..Len(db) : Truthy(db[j].License_Plate)}}

\* Bug variant of the matching loop: every detected entry is flagged.
flagged_vehicles_all(dp, db) == dp

\* flagged_vehicles after the loop over detected_plates.items()
flagged_vehicles(dp, db) ==
    [uid \in {u \in DOMAIN dp : dp[u].license_plate \in watchlist_plates(db)} |->
        dp[uid]]

\* flagged_details after the loop: for each flagged plate the first entry
\* of database_data that carries it
flagged_details(dp, db) ==
    [lp \in {dp[u].license_plate : u \in DOMAIN flagged_vehicles(dp, db)} |->
        db[CHOOSE i \in 1..Len(db) :
              /\ db[i].License_Plate = lp
              /\ \A j \in 1..(i - 1) : db[j].License_Plate # lp]]

\* A set_data call made by process_flagged_vehicles and how it ended
SetCall(path, data, outcome) == [path |-> path, data |-> data, outcome |-> outcome]

\* process_flagged_vehicles(detected_plates, database_data, firebase_manager):
\* the set_data calls it makes.  r is the manager's ref, ok1 and ok2 tell
\* whether Firebase accepts the first and the second write; an exception
\* ends the function in its except clause.
process_flagged_vehicles(dp, db, r, ok1, ok2) ==
    IF Len(db) = 0 \/ watchlist_plates(db) = {}
    THEN <<>>
    ELSE IF DOMAIN flagged_vehicles(dp, db) = {}
    THEN <<>>
    ELSE LET c1 == database_op(r, ok1)
             c2 == database_op(r, ok2)
             first == SetCall("flagged", flagged_vehicles(dp, db), c1.outcome)
         IN  IF c1.outcome # "returned"
             THEN <<first>>
             ELSE <<first, SetCall("flagged_details", flagged_details(dp, db), c2.outcome)>>

\* The state at the end of the video loop: the manager is None when its
\* initialisation failed and initialised otherwise; the database holds
\* users_detected and users_database.
InitFlagged ==
    /\ firebase_manager \in {None, "manager"}
    /\ instance = 1
    /\ initialized = TRUE
    /\ app = IF firebase_manager = None THEN None ELSE "App"
    /\ ref = IF firebase_manager = None THEN None ELSE "Ref"
    /\ init_succeeded = (firebase_manager # None)
    /\ fbTick = 0
    /\ fbResult = IF firebase_manager = None
                  THEN CallResult("get_firebase_manager", "", "returned", 1, FALSE, FALSE)
                  ELSE CallResult("initialize", "", "initialized", 0, TRUE, TRUE)
    /\ detected_data \in DetectedDicts
    /\ database_data \in DatabaseLists
    /\ database = (IF DOMAIN detected_data = {} THEN {} ELSE {"users_detected"})
                    \cup (IF Len(database_data) = 0 THEN {} ELSE {"users_database"})
    /\ pcFlagged = "loop_done"
    /\ set_calls = <<>>

\* if firebase_manager: ... is false: nothing is checked
NoFlaggedCheck ==
    /\ pcFlagged = "loop_done"
    /\ firebase_manager = None
    /\ pcFlagged' = "skipped"
    /\ UNCHANGED <<firebase_manager, detected_data, database_data, set_calls>>
    /\ UNCHANGED <<textVars, ocrVars, carVars, trackVars>>
    /\ UNCHANGED <<configVars, fbVars, recVars, gradioVars>>

\* The two get_data calls, one of which raises: the except clause of main
FlaggedCheckFails ==
    /\ pcFlagged = "loop_done"
    /\ firebase_manager # None
    /\ pcFlagged' = "skipped"
    /\ \E path \in ReadPaths :
          fbResult' = CallResult("get_data", path, database_op(ref, FALSE).outcome,
                                 0, FALSE, database_op(ref, FALSE).contacted)
    /\ fbTick' = 1 - fbTick
    /\ UNCHANGED <<firebase_manager, detected_data, database_data, set_calls>>
    /\ UNCHANGED <<instance, initialized, app, ref, init_succeeded, database>>
    /\ UNCHANGED <<textVars, ocrVars, carVars, trackVars>>
    /\ UNCHANGED <<configVars, recVars, gradioVars>>

\* Both get_data calls return and detected_data is empty
NoDetectedPlates ==
    /\ pcFlagged = "loop_done"
    /\ firebase_manager # None
    /\ database_op(ref, TRUE).outcome = "returned"
    /\ DOMAIN detected_data = {}
    /\ pcFlagged' = "skipped"
    /\ fbResult' = CallResult("get_data", "users_database", "returned", 0, FALSE, TRUE)
    /\ fbTick' = 1 - fbTick
    /\ UNCHANGED <<firebase_manager, detected_data, database_data, set_calls>>
    /\ UNCHANGED <<instance, initialized, app, ref, init_succeeded, database>>
    /\ UNCHANGED <<textVars, ocrVars, carVars, trackVars>>
    /\ UNCHANGED <<configVars, recVars, gradioVars>>

\* Both get_data calls return, detected_data is not empty and
\* process_flagged_vehicles(detected_plates, database_data or [],
\* firebase_manager) is called
ProcessFlaggedVehicles ==
    /\ pcFlagged = "loop_done"
    /\ firebase_manager # None
    /\ database_op(ref, TRUE).outcome = "returned"
    /\ DOMAIN detected_data # {}
    /\ pcFlagged' = "called"
    /\ \E ok1 \in BOOLEAN, ok2 \in BOOLEAN :
          LET calls == process_flagged_vehicles(detected_data, database_data,
                                                ref, ok1, ok2)
          IN  /\ set_calls' = calls
              /\ database' = database \cup
                    {calls[i].path : i \in {j \in 1..Len(calls) :
                                               calls[j].outcome = "returned"}}
              /\ fbResult' =
                    IF Len(calls) = 0
                    THEN CallResult("get_data", "users_database", "returned",
                                    0, FALSE, TRUE)
                    ELSE CallResult("set_data", calls[Len(calls)].path,
                                    calls[Len(calls)].outcome, 0, FALSE, TRUE)
              /\ fbTick' = (fbTick + Len(calls)) % 2
    /\ UNCHANGED <<firebase_manager, detected_data, database_data>>
    /\ UNCHANGED <<instance, initialized, app, ref, init_succeeded>>
    /\ UNCHANGED <<textVars, ocrVars, carVars, trackVars>>
    /\ UNCHANGED <<configVars, recVars, gradioVars>>

\* ------------------------------------------------------------------------
\* Specifications
\* ------------------------------------------------------------------------
\* Each specification runs one component; the other components rest in a
\* fixed initial state.
IdleText ==
    /\ text = <<>>
    /\ pcText = "idle"
    /\ complies = FALSE
    /\ plate = <<>>
    /\ plate2 = <<>>

IdleOcr ==
    /\ detections = <<>>
    /\ readerRaises = FALSE
    /\ pcOcr = "idle"
    /\ ocrResult = NoneResult

IdleCar ==
    /\ license_plate = <<0, 0, 0, 0, 0, 0>>
    /\ vehicle_track_ids = <<>>
    /\ pcCar = "idle"
    /\ carResult = NoCar

IdleTrack ==
    /\ trackers = <<>>
    /\ count = 1
    /\ frame_count = 0
    /\ assignment = NoAssignment
    /\ frame_nmr = -1
    /\ ret = FALSE
    /\ tracking_data = <<>>
    /\ track_ids = <<>>
    /\ issued = <<>>
    /\ retired = {}
    /\ update_calls = <<>>
    /\ track_bbs_ids = <<>>
    /\ sessions = <<>>

IdleConfig ==
    /\ environ = [n \in EnvNames |-> Unset]
    /\ Config = LoadConfig(environ)
    /\ pcConfig = "imported"
    /\ configResult = NotCalled

IdleFirebase == InitFirebase

IdleRecords ==
    /\ results = EmptyDict
    /\ license_plates = <<>>
    /\ ocr_calls = <<>>

IdleGradio == gradio_vehicle_results = <<>>

IdleFlagged ==
    /\ firebase_manager = None
    /\ detected_data = EmptyDict
    /\ database_data = <<>>
    /\ pcFlagged = "idle"
    /\ set_calls = <<>>

IdleRest == IdleRecords /\ IdleGradio /\ IdleFlagged

IdleSvc == IdleConfig /\ IdleFirebase /\ IdleRest

TextInit == IdleSvc /\ IdleOcr /\ IdleCar /\ IdleTrack /\ InitText

SpecText == TextInit /\ [][NextText]_vars

OcrInit == IdleSvc /\ IdleText /\ IdleCar /\ IdleTrack /\ InitOcr

SpecOcr == OcrInit /\ [][NextOcr]_vars

CarInit == IdleSvc /\ IdleText /\ IdleOcr /\ IdleTrack /\ InitCar

SpecCar == CarInit /\ [][NextCar]_vars

Init == IdleSvc /\ IdleText /\ IdleOcr /\ IdleCar /\ InitMain

Next == ProcessedFrame \/ SkippedFrame \/ EndOfVideo

Spec == Init /\ [][Next]_vars

AssignerInit == IdleSvc /\ IdleText /\ IdleOcr /\ IdleCar /\ InitAssigner

NextAssigner == Associate

SpecAssigner == AssignerInit /\ [][NextAssigner]_vars

DeployInit == IdleSvc /\ IdleText /\ IdleOcr /\ IdleCar /\ InitDeploy

NextDeploy == DeployProcessedFrame \/ DeploySkippedFrame \/ DeployEndOfVideo

SpecDeploy == DeployInit /\ [][NextDeploy]_vars

WebInit == IdleSvc /\ IdleText /\ IdleOcr /\ IdleCar /\ IdleTrack

NextWeb ==
    ProcessImage \/ StartVideo \/ WebProcessedFrame \/ WebSkippedFrame \/ WebEndOfVideo

SpecWeb == WebInit /\ [][NextWeb]_vars

\* ------------------------------------------------------------------------
\* Properties of get_car (SpecCar)
\* ------------------------------------------------------------------------
\* The plate box lies strictly inside the vehicle box on all four sides.
StrictlyInside(lp, car) ==
    lp[1] > car[1] /\ lp[2] > car[2] /\ lp[3] < car[3] /\ lp[4] < car[4]

\* Some edge of the plate box coincides with the same edge of the vehicle box.
SharesEdge(lp, car) ==
    lp[1] = car[1] \/ lp[2] = car[2] \/ lp[3] = car[3] \/ lp[4] = car[4]

TrackIndices == 1..Len(vehicle_track_ids)

\* C1: get_car returns a track only if that track's box strictly contains
\* the plate box on all four sides; whenever some track of the list strictly
\* contains the plate, it returns such a track; a track that shares an edge
\* with the plate is never the one returned.
C1_GetCarStrictContainment ==
    pcCar = "done" =>
        /\ carResult # NoCar =>
              /\ \E k \in TrackIndices : vehicle_track_ids[k] = carResult
              /\ StrictlyInside(license_plate, carResult)
        /\ (\E k \in TrackIndices : StrictlyInside(license_plate, vehicle_track_ids[k]))
              => carResult # NoCar
        /\ \A k \in TrackIndices :
              SharesEdge(license_plate, vehicle_track_ids[k])
                  => carResult # vehicle_track_ids[k]

\* C1 witness: a track is returned although an earlier track of the list
\* shares an edge with the plate.
C1_Witness ==
    /\ pcCar = "done"
    /\ carResult # NoCar
    /\ Len(vehicle_track_ids) >= 2
    /\ SharesEdge(license_plate, vehicle_track_ids[1])
    /\ carResult = vehicle_track_ids[2]

\* C2: for every plate and every track list, the empty one included, get_car
\* returns the sentinel (-1, -1, -1, -1, -1) when no track strictly contains
\* the plate.
C2_GetCarSentinel ==
    pcCar = "done" =>
        ((\A k \in TrackIndices : ~StrictlyInside(license_plate, vehicle_track_ids[k]))
            => carResult = <<-1, -1, -1, -1, -1>>)

\* C2 witness: a non-empty track list none of whose boxes contains the plate.
C2_Witness ==
    /\ pcCar = "done"
    /\ Len(vehicle_track_ids) = MaxTracks
    /\ \A k \in TrackIndices : ~StrictlyInside(license_plate, vehicle_track_ids[k])
    /\ carResult = <<-1, -1, -1, -1, -1>>

\* C3: when several tracks strictly contain the plate, get_car returns the
\* one with the lowest index in the list, whatever the sizes of the boxes.
C3_GetCarFirstMatch ==
    pcCar = "done" =>
        \A k \in TrackIndices :
            (/\ StrictlyInside(license_plate, vehicle_track_ids[k])
             /\ \A m \in 1..(k - 1) : ~StrictlyInside(license_plate, vehicle_track_ids[m]))
                => carResult = vehicle_track_ids[k]

\* C3 witness: two tracks contain the plate, the second more tightly than the
\* first and with the smaller id, and the first is returned.
C3_Witness ==
    /\ pcCar = "done"
    /\ Len(vehicle_track_ids) >= 2
    /\ StrictlyInside(license_plate, vehicle_track_ids[1])
    /\ StrictlyInside(license_plate, vehicle_track_ids[2])
    /\ vehicle_track_ids[2][3] < vehicle_track_ids[1][3]
    /\ vehicle_track_ids[2][5] < vehicle_track_ids[1][5]
    /\ carResult = vehicle_track_ids[1]

\* ------------------------------------------------------------------------
\* Properties of the plate text functions (SpecText)
\* ------------------------------------------------------------------------
LookAlikeDigits == {"0", "1", "3", "4", "6", "5"}
LookAlikeLetters == {"O", "I", "J", "A", "G", "S"}

\* The look-alike pairs (letter, digit) of the substitution table.
LookAlikes ==
    { <<"O", "0">>, <<"I", "1">>, <<"J", "3">>,
      <<"A", "4">>, <<"G", "6">>, <<"S", "5">> }

IsCanonical(t) ==
    /\ Len(t) = 7
    /\ \A j \in {1, 2, 5, 6, 7} : t[j] \in ascii_uppercase
    /\ \A j \in {3, 4} : t[j] \in digits

Validated == pcText \in {"validated", "formatted", "reformatted", "IndexError"}
Formatted == pcText \in {"formatted", "reformatted"}

\* C4: license_complies_format(text) is true exactly when text has length 7,
\* positions 0,1,4,5,6 hold an uppercase letter or one of the digits
\* 0,1,3,4,6,5 and positions 2,3 hold a digit or one of O,I,J,A,G,S; every
\* string of another length, the empty one included, is rejected.
C4_CompliesExactly ==
    Validated =>
        (complies <=>
            /\ Len(text) = 7
            /\ \A j \in {1, 2, 5, 6, 7} :
                   text[j] \in ascii_uppercase \/ text[j] \in LookAlikeDigits
            /\ \A j \in {3, 4} :
                   text[j] \in digits \/ text[j] \in LookAlikeLetters)

\* C4 witness: a text longer than 7 whose first seven characters fit the
\* pattern has been rejected.
C4_Witness ==
    /\ pcText = "validated"
    /\ Len(text) > 7
    /\ IsCanonical(SubSeq(text, 1, 7))
    /\ ~complies

AllDigits(t) == \A j \in 1..Len(t) : t[j] \in digits
AllLetters(t) == \A j \in 1..Len(t) : t[j] \in ascii_uppercase

\* C5 as stated: every 7-character string made only of digits, and every one
\* made only of letters, is rejected.
C5_Original ==
    (Validated /\ Len(text) = 7 /\ (AllDigits(text) \/ AllLetters(text)))
        => ~complies

\* C5 amended: a 7-character all-digit string is rejected exactly when one of
\* positions 0,1,4,5,6 holds a digit outside 0,1,3,4,5,6, and a 7-character
\* all-letter string exactly when position 2 or 3 holds a letter outside
\* O,I,J,A,G,S; strings made of look-alikes there ("0000000") are accepted.
C5_RejectsNonLookAlikes ==
    (Validated /\ Len(text) = 7) =>
        /\ AllDigits(text) =>
              (~complies <=> \E j \in {1, 2, 5, 6, 7} : text[j] \notin LookAlikeDigits)
        /\ AllLetters(text) =>
              (~complies <=> \E j \in {3, 4} : text[j] \notin LookAlikeLetters)

\* C5 witness: an all-digit 7-character string has been accepted.
C5_Witness ==
    /\ pcText = "validated"
    /\ Len(text) = 7
    /\ AllDigits(text)
    /\ complies

C7_FormatIdempotent ==
    /\ (pcText = "reformatted" /\ complies) => plate2 = plate
    /\ (Formatted /\ IsCanonical(text)) => plate = text

\* C7 witness: a valid plate that the first call rewrote and the second call
\* left alone.
C7_Witness ==
    /\ pcText = "reformatted"
    /\ complies
    /\ plate # text
    /\ plate2 = plate

MultiCorrectionInput == <<"0", "B", "I", "I", "3", "D", "E">>

Passes(i) == license_complies_format(NormalizeOcr(detections[i][2]))

\* C9: read_license_plate returns (None, None) or a pair (text, score) where
\* text is the format_license result of a candidate that passed
\* license_complies_format and score is that candidate's score; it returns
\* (None, None) exactly when no candidate passes (or the reader raised), and
\* never a partial or unvalidated string.
C9_ReadReturnsValidatedOrNone ==
    pcOcr = "done" =>
        /\ \/ ocrResult = NoneResult
           \/ /\ ~ocrResult.none
              /\ \E i \in 1..Len(detections) :
                    /\ Passes(i)
                    /\ ocrResult.text = format_license(NormalizeOcr(detections[i][2]))
                    /\ ocrResult.score = detections[i][3]
              /\ IsCanonical(ocrResult.text)
        /\ ocrResult.none <=>
              (readerRaises \/ \A i \in 1..Len(detections) : ~Passes(i))

\* C9 witness: the first candidate failed validation and the second, which
\* needed upper-casing or a substitution, was returned with its own score.
C9_Witness ==
    /\ pcOcr = "done"
    /\ Len(detections) >= 2
    /\ ~Passes(1)
    /\ Passes(2)
    /\ ~ocrResult.none
    /\ ocrResult.text # detections[2][2]
    /\ ocrResult.score = detections[2][3]
    /\ detections[1][3] # detections[2][3]

\* ------------------------------------------------------------------------
\* Properties of the tracking loop (Spec)
\* ------------------------------------------------------------------------
LiveIds == {trackers[i].id : i \in 1..Len(trackers)}

\* C10: across any sequence of tracker steps, track ids are unique among the
\* live tracks, are assigned in strictly increasing order, and the id of a
\* removed track is never given to a later track.
C10_TrackIdsUniqueNeverReused ==
    /\ \A i, j \in 1..Len(trackers) :
          trackers[i].id = trackers[j].id => i = j
    /\ \A i, j \in 1..Len(issued) : i < j => issued[i] < issued[j]
    /\ LiveIds \cap retired = {}
    /\ \A i \in 1..Len(track_ids) : track_ids[i][5] \in LiveIds \ retired

\* C10 witness: a track has been removed and tracks created after its
\* removal are live and reported under larger ids.
C10_Witness ==
    /\ retired # {}
    /\ Len(trackers) >= 2
    /\ Len(track_ids) >= 1
    /\ \A i \in 1..Len(trackers) : \A r \in retired : trackers[i].id > r

\* A tracker step is taken in this transition.
Stepped == update_calls' # update_calls

\* The detections of the frame being processed whose IOU with the predicted
\* box of track i of the pre-state is at least 0.3.
OverlappingDetections(i) ==
    {d \in 1..Len(tracking_data') :
        IouAccepted(PredictedBoxes(trackers)[i], BoxOf(tracking_data'[d]))}

\* Detection d touches the predicted box of no track but i, and the
\* predicted box of track i touches no detection but d.
ExclusivePair(i, d) ==
    /\ \A j \in 1..Len(trackers) :
          j # i => Intersection(PredictedBoxes(trackers)[j], BoxOf(tracking_data'[d])) = 0
    /\ \A e \in 1..Len(tracking_data') :
          e # d => Intersection(PredictedBoxes(trackers)[i], BoxOf(tracking_data'[e])) = 0

\* Track i of the pre-state is matched in the step, stays live and is
\* reported under its id.
MatchedKeptReported(i) ==
    /\ \E j \in 1..Len(trackers') :
          /\ trackers'[j].id = trackers[i].id
          /\ trackers'[j].hits = trackers[i].hits + 1
          /\ trackers'[j].time_since_update = 0
    /\ \E r \in 1..Len(track_ids') : track_ids'[r][5] = trackers[i].id

ReportedIds == {track_ids[r][5] : r \in 1..Len(track_ids)}

\* Track i of the pre-state is matched in the step of this transition.
MatchedInStep(i) == \E p \in assignment'.matched : p[1] = i

\* C12: every live track has gone unmatched for at most max_age steps; a
\* track is removed at the end of exactly the step in which it is unmatched
\* and its time_since_update exceeds max_age; the id of a removed track is in
\* no later live set and in no later returned track list.
C12_StaleTrackRemoved ==
    [][/\ \A i \in 1..Len(trackers) : trackers[i].time_since_update <= max_age
       /\ Stepped =>
             \A i \in 1..Len(trackers) :
                 /\ trackers[i].id \notin LiveIds'
                       <=> (~MatchedInStep(i) /\ trackers[i].time_since_update + 1 > max_age)
                 /\ trackers[i].id \notin LiveIds' => trackers[i].id \in retired'
       /\ retired \subseteq retired'
       /\ retired' \cap (LiveIds' \cup ReportedIds') = {}]_vars

\* C12 witness: a track went unmatched in two successive steps, was removed,
\* and a later step has run on the remaining tracks.
C12_Witness ==
    /\ Len(update_calls) >= 4
    /\ retired # {}
    /\ \E i \in 1..Len(trackers) :
          /\ trackers[i].age >= 3
          /\ \E r \in retired : r < trackers[i].id
    /\ Len(track_ids) >= 1

\* The ids issued by the step of this transition
NewIds == {issued'[k] : k \in (Len(issued) + 1)..Len(issued')}

\* C13: when no detection of the frame has IOU of at least 0.3 with the
\* predicted box of any live track, the step matches no detection to an
\* existing track and every detection creates a new track with a fresh id.
C13_NoOverlapSpawnsTracks ==
    [][(Stepped /\ \A i \in 1..Len(trackers) : OverlappingDetections(i) = {}) =>
          /\ assignment'.matched = {}
          /\ \A i \in 1..Len(trackers) : \A j \in 1..Len(trackers') :
                trackers'[j].id = trackers[i].id =>
                    /\ trackers'[j].hits = trackers[i].hits
                    /\ trackers'[j].time_since_update = trackers[i].time_since_update + 1
          /\ Cardinality(NewIds) = Len(tracking_data')
          /\ NewIds \cap (LiveIds \cup retired \cup {issued[k] : k \in 1..Len(issued)}) = {}
          /\ \A d \in 1..Len(tracking_data') :
                \E j \in 1..Len(trackers') :
                    /\ trackers'[j].id \in NewIds
                    /\ trackers'[j].box = BoxOf(tracking_data'[d])
                    /\ trackers'[j].age = 0
                    /\ trackers'[j].hits = 0]_vars

\* C13 witness: a step on a live track and two detections, one of which
\* overlaps the track's predicted box below the threshold; nothing was
\* matched and both detections became new tracks.
C13_Witness ==
    /\ Len(assignment.trks) >= 1
    /\ Len(assignment.dets) = 2
    /\ assignment.matched = {}
    /\ \E t \in 1..Len(assignment.trks) : \E d \in 1..Len(assignment.dets) :
          Intersection(assignment.trks[t], BoxOf(assignment.dets[d])) > 0
    /\ \A d \in 1..Len(assignment.dets) :
          \E j \in 1..Len(trackers) :
              /\ trackers[j].box = BoxOf(assignment.dets[d])
              /\ trackers[j].age = 0
              /\ trackers[j].id > Len(assignment.trks)

\* C14: the accepted assignment of a step is a partial one-to-one matching
\* of track indices and detection indices, every accepted pair has IOU of at
\* least 0.3, and every track and detection outside the accepted pairs is
\* listed as unmatched.
C14_AssignmentPartialOneToOne ==
    LET T == 1..Len(assignment.trks)
        D == 1..Len(assignment.dets)
    IN  /\ assignment.matched \subseteq T \X D
        /\ \A p, q \in assignment.matched :
              (p[1] = q[1] \/ p[2] = q[2]) => p = q
        /\ \A p \in assignment.matched :
              IouAccepted(assignment.trks[p[1]], BoxOf(assignment.dets[p[2]]))
        /\ assignment.unmatched_trks = T \ {p[1] : p \in assignment.matched}
        /\ assignment.unmatched_dets = D \ {p[2] : p \in assignment.matched}

\* C14 witness: a step with two tracks and two detections in which one
\* candidate pair was accepted and the other discarded, leaving its track
\* and its detection unmatched.
C14_Witness ==
    /\ Len(assignment.trks) = 2
    /\ Len(assignment.dets) = 2
    /\ Cardinality(assignment.candidate) = 2
    /\ Cardinality(assignment.matched) = 1
    /\ Cardinality(assignment.unmatched_trks) = 1
    /\ Cardinality(assignment.unmatched_dets) = 1

\* The greedy matching on the cost matrix of the last step
GreedyOfLastStep ==
    GreedyFrom(1..Len(assignment.trks), 1..Len(assignment.dets),
               assignment.trks, assignment.dets)

ProcessesEmptyFrame ==
    /\ ret
    /\ ret'
    /\ frame_nmr' = frame_nmr + 1
    /\ frame_nmr' % FRAME_SKIP = 0
    /\ tracking_data' = <<>>

\* C16: a processed frame with no vehicle detections advances the tracker:
\* every live track either ages by one step with one more step since its
\* last match or, its time_since_update exceeding max_age, is removed, and
\* nothing is reported.
C16_EmptyFrameAdvancesTracker ==
    [][ProcessesEmptyFrame =>
          /\ track_ids' = <<>>
          /\ \A i \in 1..Len(trackers) :
                IF trackers[i].time_since_update + 1 > max_age
                THEN trackers[i].id \notin LiveIds'
                ELSE \E j \in 1..Len(trackers') :
                        /\ trackers'[j].id = trackers[i].id
                        /\ trackers'[j].age = trackers[i].age + 1
                        /\ trackers'[j].time_since_update =
                               trackers[i].time_since_update + 1]_vars

\* C17: a tracker step increases the age of every live track it keeps by
\* exactly one; a track matched in the step ends it with time_since_update 0
\* and one more hit; an unmatched track ends it with one more step since its
\* last match and the same hits.  A new track starts with all three at 0.
C17_TrackCounters ==
    [][Stepped =>
          /\ \A i \in 1..Len(trackers) : \A j \in 1..Len(trackers') :
                trackers'[j].id = trackers[i].id =>
                    /\ trackers'[j].age = trackers[i].age + 1
                    /\ IF MatchedInStep(i)
                       THEN /\ trackers'[j].time_since_update = 0
                            /\ trackers'[j].hits = trackers[i].hits + 1
                       ELSE /\ trackers'[j].time_since_update =
                                   trackers[i].time_since_update + 1
                            /\ trackers'[j].hits = trackers[i].hits
          /\ \A j \in 1..Len(trackers') :
                trackers'[j].id \in NewIds =>
                    /\ trackers'[j].age = 0
                    /\ trackers'[j].time_since_update = 0
                    /\ trackers'[j].hits = 0]_vars

\* C17 witness: a track that was matched, went unmatched for one step and
\* was matched again: three steps old, two hits, just updated.
C17_Witness ==
    \E i \in 1..Len(trackers) :
        /\ trackers[i].age = 3
        /\ trackers[i].hits = 2
        /\ trackers[i].hit_streak = 1
        /\ trackers[i].time_since_update = 0

\* Row r of the next returned list is live track j of the post-state.
RowOfTrack(r, j) ==
    /\ track_ids'[r][5] = trackers'[j].id
    /\ <<track_ids'[r][1], track_ids'[r][2], track_ids'[r][3], track_ids'[r][4]>>
           = trackers'[j].box

C19_OneUpdatePerFrame ==
    \A i, j \in 1..Len(update_calls) :
        i < j => update_calls[i] < update_calls[j]

\* ------------------------------------------------------------------------
\* Properties of the sessions of web_streamlit.py (SpecWeb)
\* ------------------------------------------------------------------------
\* Session k's tracker is stepped in this transition.
InstanceStepped(k) ==
    /\ k \in 1..Len(sessions')
    /\ IF k \in 1..Len(sessions)
       THEN sessions'[k].frame_count # sessions[k].frame_count
       ELSE sessions'[k].frame_count # Sort.frame_count

ConfigInit ==
    IdleText /\ IdleOcr /\ IdleCar /\ IdleTrack /\ IdleFirebase /\ IdleRest
    /\ InitConfig

NextConfig == SetEnv \/ PopEnv \/ AssignConfig \/ GetFirebaseConfig

SpecConfig == ConfigInit /\ [][NextConfig]_vars

\* C21: a call of get_firebase_config made while the configured database URL
\* or the configured storage bucket is empty raises ValueError and returns no
\* dictionary.
C21_EmptySettingRaises ==
    (pcConfig = "returned" /\ \E n \in EnvNames : Config[n] = "")
        => configResult = ValueError

\* C21 witness: a call with a non-empty database URL and an empty storage
\* bucket has raised ValueError.
C21_Witness ==
    /\ pcConfig = "returned"
    /\ Config["FIREBASE_DATABASE_URL"] # ""
    /\ Config["FIREBASE_STORAGE_BUCKET"] = ""
    /\ configResult = ValueError

\* Both environment variables hold a non-empty value.
EnvironSet == \A n \in EnvNames : environ[n] \notin {Unset, ""}

\* C22: a call of get_firebase_config made while both environment variables
\* hold non-empty values, whether they were set before or after the import
\* of the module, returns a dictionary with the keys databaseURL and
\* storageBucket.
C22_EnvSetBeforeCallReturnsDict ==
    (pcConfig = "returned" /\ EnvironSet)
        => /\ configResult.outcome = "dict"
           /\ DOMAIN configResult = {"outcome", "databaseURL", "storageBucket"}

FirebaseInit ==
    IdleText /\ IdleOcr /\ IdleCar /\ IdleTrack /\ IdleConfig /\ IdleRest
    /\ InitFirebase

NextFirebase ==
    Construct \/ Initialize \/ UploadToStorage \/ WriteData \/ GetData

SpecFirebase == FirebaseInit /\ [][NextFirebase]_vars

\* A call on the manager is made in this transition.
Called == fbTick' # fbTick

\* C23: on a manager on which no initialize call has succeeded,
\* upload_to_storage, push_data, set_data and get_data each raise
\* RuntimeError without calling Firebase and leave app and ref unchanged.
C23_UninitializedOpsRaise ==
    [][(Called /\ ~init_succeeded /\ fbResult'.op \in DataOps)
          => /\ fbResult'.outcome = "RuntimeError"
             /\ ~fbResult'.contacted
             /\ UNCHANGED <<app, ref, database>>]_vars

\* C24: every FirebaseManager() and get_firebase_manager() call returns the
\* one object the first call created, and a construction made after the
\* first one leaves app and ref as they are.
C24_Singleton ==
    [][(Called /\ fbResult'.op \in Constructors)
          => /\ fbResult'.object = 1
             /\ instance' = 1
             /\ (instance > 0 => UNCHANGED <<app, ref>>)]_vars

\* C24 witness: a constructor was called after a successful initialize and
\* app and ref are still set.
C24_Witness ==
    /\ fbResult.op \in Constructors
    /\ init_succeeded
    /\ app = "App"
    /\ ref = "Ref"

\* C25: an initialize call made while app is set returns without error, does
\* not look at the credentials path, calls nothing of Firebase and changes
\* neither app nor ref; an app once created is never replaced.
C25_InitializeIdempotent ==
    [][/\ (Called /\ fbResult'.op = "initialize" /\ app # None)
            => /\ fbResult'.outcome = "already_initialized"
               /\ ~fbResult'.checked_credentials
               /\ ~fbResult'.contacted
               /\ UNCHANGED <<app, ref>>
       /\ (app # None => app' = app)]_vars

\* C25 witness: initialize was called again after it had succeeded, with a
\* missing credentials file, and returned at once.
C25_Witness ==
    /\ fbResult.op = "initialize"
    /\ fbResult.outcome = "already_initialized"
    /\ init_succeeded
    /\ app = "App"
    /\ ref = "Ref"

C27_AppIffRef == (app = None) <=> (ref = None)

RecordsInit ==
    IdleText /\ IdleOcr /\ IdleCar /\ IdleConfig /\ IdleGradio /\ IdleFlagged
    /\ InitRecords

NextRecords == RecordProcessedFrame \/ RecordSkippedFrame \/ RecordEndOfVideo

SpecRecords == RecordsInit /\ [][NextRecords]_vars

\* The normalised texts of the candidates the OCR reader can yield.
ReadableTexts ==
    {NormalizeOcr(r.dets[i][2]) : <<r, i>> \in
        {<<q, j>> \in PlateReadings \X (1..2) : j <= Len(q.dets)}}

\* The text is the formatted form of a candidate that passed validation.
PassedValidation(t) ==
    \E n \in ReadableTexts : license_complies_format(n) /\ t = format_license(n)

\* C28: every record stored for a frame has a vehicle id that occurs in the
\* track list the tracker returned for that frame and a plate text that
\* passed validation; a plate for which get_car returns -1 is never handed
\* to the OCR step and never produces a record; the records of earlier
\* frames are left as they are.
C28_RecordsTrackedAndValidated ==
    [][frame_nmr' \in DOMAIN results' \ DOMAIN results =>
          /\ \A c \in DOMAIN results'[frame_nmr'] :
                /\ c # -1
                /\ \E r \in 1..Len(track_ids') : track_ids'[r][5] = c
                /\ PassedValidation(results'[frame_nmr'][c].text)
                /\ \E i \in 1..Len(license_plates') :
                      /\ get_car(license_plates'[i], track_ids')[5] = c
                      /\ <<license_plates'[i][1], license_plates'[i][2],
                           license_plates'[i][3], license_plates'[i][4]>>
                            = results'[frame_nmr'][c].plate_bbox
          /\ \A k \in 1..Len(ocr_calls') :
                get_car(ocr_calls'[k], track_ids')[5] # -1
          /\ \A f \in DOMAIN results : results'[f] = results[f]]_vars

\* C28 witness: a frame with two plates, one inside a tracked vehicle and
\* read successfully, one inside no tracked vehicle: one record, one OCR
\* call.
C28_Witness ==
    /\ frame_nmr \in DOMAIN results
    /\ Len(license_plates) = 2
    /\ Len(ocr_calls) = 1
    /\ Cardinality(DOMAIN results[frame_nmr]) = 1
    /\ \E i \in 1..2 : get_car(license_plates[i], track_ids)[5] = -1
    /\ Len(track_ids) >= 1

GradioInit ==
    IdleText /\ IdleOcr /\ IdleCar /\ IdleConfig /\ IdleFirebase /\ IdleRecords
    /\ IdleFlagged /\ InitGradio

NextGradio == GradioProcessedFrame \/ GradioSkippedFrame \/ GradioEndOfVideo

SpecGradio == GradioInit /\ [][NextGradio]_vars

\* The boxes (x1, y1, x2, y2) of the rows of a list.
BoxesOf(rows) == [i \in 1..Len(rows) |-> BoxOf(rows[i])]

\* C29: the boxes handed to the tracker in a step are the boxes of the
\* detector's rows that pass the class and score filter, in the detector's
\* order, each as (x1, y1, x2, y2) with its values unchanged.
C29_TrackerGetsDetectorBoxes ==
    [][Stepped =>
          BoxesOf(tracking_data')
              = BoxesOf(SelectSeq(gradio_vehicle_results', IsVehicleDetection))]_vars

FlaggedInit ==
    IdleText /\ IdleOcr /\ IdleCar /\ IdleTrack /\ IdleConfig /\ IdleRecords
    /\ IdleGradio /\ InitFlagged

NextFlagged ==
    NoFlaggedCheck \/ FlaggedCheckFails \/ NoDetectedPlates \/ ProcessFlaggedVehicles

SpecFlagged == FlaggedInit /\ [][NextFlagged]_vars

\* The uids of the detected entries whose license plate is the license
\* plate of an entry of the watchlist database.
MatchedUids ==
    {u \in DOMAIN detected_data :
        /\ Truthy(detected_data[u].license_plate)
        /\ \E i \in 1..Len(database_data) :
              database_data[i].License_Plate = detected_data[u].license_plate}

\* C30: process_flagged_vehicles writes to flagged exactly the detected
\* entries whose license plate occurs in the watchlist database, and does so
\* whenever there is such an entry; it writes flagged_details only after it
\* has written flagged; it makes no write when the database is empty, holds
\* no valid plate or matches no detected plate; outside the function no
\* write is made.
C30_FlaggedWrites ==
    /\ pcFlagged # "called" => set_calls = <<>>
    /\ pcFlagged = "called" =>
          /\ (MatchedUids = {}) <=> (set_calls = <<>>)
          /\ Len(set_calls) <= 2
          /\ Len(set_calls) >= 1 =>
                /\ set_calls[1].path = "flagged"
                /\ DOMAIN set_calls[1].data = MatchedUids
                /\ \A u \in MatchedUids : set_calls[1].data[u] = detected_data[u]
          /\ Len(set_calls) = 2 =>
                /\ set_calls[1].outcome = "returned"
                /\ set_calls[2].path = "flagged_details"
                /\ \A lp \in DOMAIN set_calls[2].data :
                      /\ set_calls[2].data[lp].License_Plate = lp
                      /\ \E u \in MatchedUids : detected_data[u].license_plate = lp
          /\ "flagged_details" \in database => "flagged" \in database

\* C30 witness: of two detected entries one matches the watchlist, the
\* other does not; flagged holds the one, flagged_details was written after
\* it.
C30_Witness ==
    /\ pcFlagged = "called"
    /\ Cardinality(DOMAIN detected_data) = 2
    /\ Cardinality(MatchedUids) = 1
    /\ Len(set_calls) = 2
    /\ set_calls[2].outcome = "returned"
    /\ {"flagged", "flagged_details"} \subseteq database
    /\ \E i \in 1..Len(database_data) : ~Truthy(database_data[i].License_Plate)

====
